---- MODULE Spec2Model ----
(***************************************************************************)
(* A model of the Option/Result toolkit of the easy-fp course: the Option  *)
(* and Result combinators, the validators and retry of chapter 7, the      *)
(* Task/AsyncResult helpers and the API client of the appendix, the todo   *)
(* lists, reducer, Store and effects of chapter 9, and the helpers         *)
(* debounce, throttle and memoize.                                         *)
(***************************************************************************)
EXTENDS Integers, Sequences, FiniteSets, TLC

VARIABLES
    results,    \* the Result list handed to combineResults / sequence; its head
                \* is the Result handed to mapResult / flatMapResult / mapError
    fn,         \* the function handed to mapResult
    ret,        \* what the last call returned
    spy,        \* the arguments fn has been invoked with, in order
    op,         \* the call that has been made ("none" before any)
    data,       \* the FormData handed to validateForm, or validateUser's arguments
    cfg,        \* retryTask's run: its arguments and the behaviour of the task
    work,       \* the invocations of the underlying task, in order
    timer,      \* the timers of timeoutTask, one per invocation of it
    race,       \* the promises of Promise.race, one per invocation of timeoutTask
    rpc,        \* where the run of retryTask's async function stands
    attempt,    \* its loop variable
    lastError,  \* its lastError
    sleep,      \* what is left of the delay it waits for
    waits,      \* the delays it has waited for, in order
    rret,       \* the promise the run returned
    inner,      \* flatMapAsync: what the inner task settles with
    ffn,        \* what the task fn(v) returns settles with, for every v
    fpc,        \* where the run of flatMapAsync's async function stands
    innerP,     \* the promise of the inner task's invocation
    secondP,    \* the promise of the invocation of the task fn returned
    runs,       \* the runs of the task flatMapAsync returned
    innerCalls, \* the invocations of the inner task
    fnCalls,    \* the arguments fn has been invoked with
    secondCalls, \* the invocations of tasks fn returned
    fret,       \* the promise the run returned
    ptasks,     \* parallel: its tasks (how long each takes, how it settles)
    pwork,      \* the invocations of the tasks
    pall,       \* the promise of Promise.all
    ppc,        \* whether the task parallel returned has been called
    opt,        \* the Option handed to map / flatMap
    mfn,        \* the function handed to map
    ofn,        \* the first function handed to flatMap
    ogn,        \* the second function handed to flatMap
    oret,       \* what the last call on the Option returned
    ospy,       \* the arguments map's function has been invoked with, in order
    oop,        \* the call that has been made on the Option ("none" before any)
    net,        \* createApiClient / robustFetch: how the network behaves
    apc,        \* where the run of the AsyncResult task's async function stands
    ares,       \* the promise the run of the AsyncResult task returned
    heap,       \* chapter 9: the objects that exist (todos, arrays, states), by reference
    cur,        \* the reference of the todo list the next call is handed
    appState,   \* the reference of the AppState the next reducer call is handed
    calls,      \* the calls made so far: what each was handed and what it returned
    now,        \* what new Date() yields
    nextId,     \* the ids crypto.randomUUID() has yielded so far
    limit,      \* parallelLimit: its limit (its tasks are ptasks, its calls pwork)
    executing,  \* its executing array: the tasks whose promises it holds
    lresults,   \* its results array
    lpc,        \* where the run of its async function stands
    lwait,      \* the promise the run awaits: of Promise.race or of Promise.all
    lret,       \* the promise the run returned
    storeState, \* Store: its state, the reference of an AppState
    listeners,  \* its listeners, in the order they were added
    dispatched, \* the actions dispatched so far, in order, and the states they left
    notified,   \* the listener calls of the last dispatch, in order, and how the
                \* listeners stood when it was made
    subs,       \* how each listener stands: subscribed, unsubscribed, or never either
    saves,      \* the calls of storage.save made so far: what each was handed and returned
    syncs,      \* the fetch tasks of SYNC_WITH_SERVER effects: how each stands
    first,      \* fetchUserWithPosts: what the user request its run issues settles with
    upc,        \* where the run of its async function stands
    uruns,      \* the runs of the task it returned
    userCalls,  \* the invocations of userTask by these runs themselves
    userP,      \* the promise of the last of them
    userResult, \* the run's userResult
    uret,       \* the promise the run returned
    period,     \* debounce / throttle: its delay or limit
    clock,      \* the time
    wcalls,     \* the calls of the function it returned: when, and with what
    timers,     \* the timers setTimeout has set, in order
    timeoutId,  \* debounce's timeoutId: a position in timers, 0 while undefined
    inThrottle, \* throttle's inThrottle
    invoked,    \* the invocations of fn: when, with what, for which call
    memos,      \* memoize: the memoized functions made, each with its cache
    mcalls,     \* the calls of memoized functions: of which, with what, and the outcome
    fnLog       \* the invocations of fn: by which memoized function, and with what

pureVars == <<results, fn, ret, spy, op, data>>

taskVars == <<cfg, work, timer, race, rpc, attempt, lastError, sleep, waits, rret>>

fmaVars ==
    <<inner, ffn, fpc, innerP, secondP, runs, innerCalls, fnCalls, secondCalls, fret>>

parVars == <<ptasks, pwork, pall, ppc>>

optVars == <<opt, mfn, ofn, ogn, oret, ospy, oop>>

apiVars == <<net, apc, ares>>

todoVars == <<heap, cur, appState, calls, now, nextId>>

limVars == <<limit, executing, lresults, lpc, lwait, lret>>

storeVars == <<storeState, listeners, dispatched, notified, subs, saves, syncs>>

uwpVars == <<first, upc, uruns, userCalls, userP, userResult, uret>>

timVars == <<period, clock, wcalls, timers, timeoutId, inThrottle, invoked>>

memoVars == <<memos, mcalls, fnLog>>

\* What the calls on Options leave alone.
notOpt == <<pureVars, taskVars, fmaVars, parVars, apiVars, todoVars, limVars, storeVars, uwpVars, timVars, memoVars>>

\* What the request task of createApiClient leaves alone.
notApi == <<pureVars, taskVars, fmaVars, parVars, optVars, todoVars, limVars, storeVars, uwpVars, timVars, memoVars>>

\* What robustFetch leaves alone: its run is a run of retryTask as well.
notFetch == <<pureVars, fmaVars, parVars, optVars, todoVars, limVars, storeVars, uwpVars, timVars, memoVars>>

\* What the calls on todo lists leave alone.
notTodo == <<pureVars, taskVars, fmaVars, parVars, optVars, apiVars, limVars, storeVars, uwpVars, timVars, memoVars>>

\* What parallelLimit leaves alone, besides the variables it shares with parallel.
notLim == <<pureVars, taskVars, fmaVars, optVars, apiVars, todoVars, storeVars, uwpVars, timVars, memoVars>>

\* What the Store leaves alone: its reducer works on the objects of chapter 9.
notStore == <<pureVars, taskVars, fmaVars, parVars, optVars, apiVars, limVars, uwpVars, timVars, memoVars>>

\* What fetchUserWithPosts leaves alone besides the run of its postsTask.
notUwp == <<pureVars, taskVars, parVars, optVars, apiVars, todoVars, limVars, storeVars, timVars, memoVars>>

\* What debounce and throttle leave alone.
notTim == <<pureVars, taskVars, fmaVars, parVars, optVars, apiVars, todoVars, limVars, storeVars, uwpVars, memoVars>>

\* What memoized functions leave alone.
notMemo == <<pureVars, taskVars, fmaVars, parVars, optVars, apiVars, todoVars, limVars, storeVars, uwpVars, timVars>>

vars == <<pureVars, taskVars, fmaVars, parVars, optVars, apiVars, todoVars, limVars, storeVars, uwpVars, timVars, memoVars>>

\* What the calls on Results and forms leave alone.
notPure == <<taskVars, fmaVars, parVars, optVars, apiVars, todoVars, limVars, storeVars, uwpVars, timVars, memoVars>>

\* What retryTask and timeoutTask leave alone.
notTask == <<pureVars, fmaVars, parVars, optVars, apiVars, todoVars, limVars, storeVars, uwpVars, timVars, memoVars>>

\* What flatMapAsync leaves alone.
notFma == <<pureVars, taskVars, parVars, optVars, apiVars, todoVars, limVars, storeVars, uwpVars, timVars, memoVars>>

\* What parallel leaves alone.
notPar == <<pureVars, taskVars, fmaVars, optVars, apiVars, todoVars, limVars, storeVars, uwpVars, timVars, memoVars>>

(***************************************************************************)
(* Bounds of the model.                                                    *)
(***************************************************************************)
MaxLen == 3
MaxVal == 2
MaxAttempts == 3
MaxFaults == 3
MaxDelay == 1
MaxDur == 2
MaxMs == 2
MaxRuns == 2
MaxTasks == 3

Values == 0..MaxVal
Errors == {"a", "b"}

(***************************************************************************)
(* Result (chapter 7).                                                     *)
(***************************************************************************)
ok(value) == [type |-> "ok", value |-> value]

err(error) == [type |-> "err", error |-> error]

isOk(result) == result.type = "ok"

isErr(result) == result.type = "err"

Results == {ok(v) : v \in Values} \cup {err(e) : e \in Errors}

ResultLists == UNION {[1..n -> Results] : n \in 0..MaxLen}

ValueLists == UNION {[1..n -> Values] : n \in 0..MaxLen}

\* The functions a caller may hand to mapResult.
Fns ==
    { [v \in Values |-> v],
      [v \in Values |-> (v + 1) % (MaxVal + 1)],
      [v \in Values |-> 0] }

mapResult(result, f) ==
    IF isErr(result) THEN result ELSE ok(f[result.value])

\* A faulty mapResult: fn is applied before the variant is looked at.
mapResultCallsEager(result, f) ==
    IF isErr(result) THEN <<result.error>> ELSE <<result.value>>

\* The invocations of f that mapResult(result, f) makes, as the list of arguments.
mapResultCalls(result, f) ==
    IF isErr(result) THEN <<>> ELSE <<result.value>>

flatMapResult(result, f) ==
    IF isErr(result) THEN result ELSE f[result.value]

\* The functions a caller may hand to flatMapResult: ok itself, one that
\* fails on every value, and a predecessor that fails on 0.
ResultFns ==
    { [v \in Values |-> ok(v)],
      [v \in Values |-> err("a")],
      [v \in Values |-> IF v = 0 THEN err("b") ELSE ok(v - 1)] }

\* A mapError whose result carries a tag that is neither "ok" nor "err".
mapErrorUntagged(result, f) ==
    IF isOk(result) THEN result ELSE [type |-> "error", error |-> f[result.error]]

mapError(result, f) ==
    IF isOk(result) THEN result ELSE err(f[result.error])

\* The functions a caller may hand to mapError.
ErrorFns ==
    { [e \in Errors |-> e],
      [e \in Errors |-> "a"],
      [e \in Errors |-> IF e = "a" THEN "b" ELSE "a"] }

RECURSIVE combineLoop(_, _, _)
combineLoop(rs, values, errors) ==
    IF rs = <<>> THEN [values |-> values, errors |-> errors]
    ELSE LET result == Head(rs)
         IN  IF isOk(result)
             THEN combineLoop(Tail(rs), Append(values, result.value), errors)
             ELSE combineLoop(Tail(rs), values, Append(errors, result.error))

\* A faulty combineResults: only the first error is kept.
combineResultsFirstOnly(rs) ==
    LET acc == combineLoop(rs, <<>>, <<>>)
    IN  IF Len(acc.errors) > 0 THEN err(<<Head(acc.errors)>>) ELSE ok(acc.values)

combineResults(rs) ==
    LET acc == combineLoop(rs, <<>>, <<>>)
    IN  IF Len(acc.errors) > 0 THEN err(acc.errors) ELSE ok(acc.values)

\* The reducer of sequence: (acc, result) => flatMapResult(acc, values =>
\* mapResult(result, value => [...values, value])).
sequenceStep(acc, result) ==
    flatMapResult(acc,
        [values \in ValueLists |->
            mapResult(result, [value \in Values |-> Append(values, value)])])

RECURSIVE reduce(_, _)
reduce(rs, acc) ==
    IF rs = <<>> THEN acc ELSE reduce(Tail(rs), sequenceStep(acc, Head(rs)))

\* A faulty sequence: the last error is kept instead of the first.
sequenceLastError(rs) ==
    LET acc == combineLoop(rs, <<>>, <<>>)
    IN  IF Len(acc.errors) > 0
        THEN err(acc.errors[Len(acc.errors)])
        ELSE ok(acc.values)

sequence(rs) == reduce(rs, ok(<<>>))

(***************************************************************************)
(* Promises, and the task retryTask and timeoutTask are applied to.        *)
(***************************************************************************)
Pending == [kind |-> "pending"]

Resolved(value) == [kind |-> "resolved", v |-> value]

Rejected(error) == [kind |-> "rejected", v |-> error]

\* A faulty promise: a later settlement replaces the first.
SettleOverwrites(promise, outcome) == outcome

\* The first settlement of a promise decides it; a later one changes nothing.
Settle(promise, outcome) ==
    IF promise.kind = "pending" THEN outcome ELSE promise

\* new Error("Timeout")
TimeoutError == [name |-> "Error", message |-> "Timeout"]

\* The fault the task's j-th invocation rejects with.
Fault(j) == [name |-> "Error", message |-> "fault", invocation |-> j]

\* let lastError: Error, before any assignment.
Undefined == [name |-> "undefined"]

\* The task faults on its first cfg.faults invocations and resolves afterwards.
TaskOutcome(j) ==
    IF j <= cfg.faults THEN Rejected(Fault(j)) ELSE Resolved(cfg.value)

TaskValues == {ok(0), err("a")}

Configs ==
    [wrapped : {FALSE}, maxAttempts : (-1)..MaxAttempts, delay : 0..MaxDelay,
     ms : {0}, faults : 0..MaxFaults, value : TaskValues]
    \cup
    [wrapped : {TRUE}, maxAttempts : (-1)..MaxAttempts, delay : 0..MaxDelay,
     ms : 1..MaxMs, faults : 0..MaxFaults, value : TaskValues]

IdleTask ==
    /\ cfg = [wrapped |-> FALSE, maxAttempts |-> 0, delay |-> 0, ms |-> 0,
              faults |-> 0, value |-> ok(0)]
    /\ work = <<>>
    /\ timer = <<>>
    /\ race = <<>>
    /\ rpc = "idle"
    /\ attempt = 0
    /\ lastError = Undefined
    /\ sleep = 0
    /\ waits = <<>>
    /\ rret = Pending

NotCalled == [kind |-> "none"]

IdleFma ==
    /\ inner = Resolved(ok(0))
    /\ ffn = [v \in Values |-> Resolved(ok(v))]
    /\ fpc = "idle"
    /\ innerP = NotCalled
    /\ secondP = NotCalled
    /\ runs = 0
    /\ innerCalls = 0
    /\ fnCalls = <<>>
    /\ secondCalls = 0
    /\ fret = NotCalled

IdlePar ==
    /\ ptasks = <<>>
    /\ pwork = <<>>
    /\ pall = NotCalled
    /\ ppc = "idle"

(***************************************************************************)
(* Option of chapter 7.                                                    *)
(***************************************************************************)
none == [type |-> "none"]

some(value) == [type |-> "some", value |-> value]

isNone(option) == option.type = "none"

isSome(option) == option.type = "some"

Options == {none} \cup {some(v) : v \in Values}

\* A map that hands the Option back without applying fn.
mapKeepsValue(option, f) ==
    IF isNone(option) THEN none ELSE option

map(option, f) ==
    IF isNone(option) THEN none ELSE some(f[option.value])

\* The arguments map invokes fn with, in order.
mapCalls(option, f) ==
    IF isNone(option) THEN <<>> ELSE <<option.value>>

\* A flatMap that applies fn to a default value when the Option is None.
flatMapDefaultsNone(option, f) ==
    IF isNone(option) THEN f[0] ELSE f[option.value]

flatMap(option, f) ==
    IF isNone(option) THEN none ELSE f[option.value]

\* Functions from values to Options handed to flatMap: some itself, the
\* constant None, a predecessor and a successor that have no result at the
\* ends of the range, and a constant Some.
OptionFns ==
    { [v \in Values |-> some(v)],
      [v \in Values |-> none],
      [v \in Values |-> IF v = 0 THEN none ELSE some(v - 1)],
      [v \in Values |-> IF v = MaxVal THEN none ELSE some(v + 1)],
      [v \in Values |-> some(0)] }

IdleOpt ==
    /\ opt = none
    /\ mfn = [v \in Values |-> v]
    /\ ofn = [v \in Values |-> none]
    /\ ogn = [v \in Values |-> none]
    /\ oret = NotCalled
    /\ ospy = <<>>
    /\ oop = "none"

IdleApi ==
    /\ net = [kind |-> "none"]
    /\ apc = "idle"
    /\ ares = NotCalled

IdleTodo ==
    /\ heap = <<>>
    /\ cur = 0
    /\ appState = 0
    /\ calls = <<>>
    /\ now = 0
    /\ nextId = 0

IdleLim ==
    /\ limit = 1
    /\ executing = <<>>
    /\ lresults = <<>>
    /\ lpc = "idle"
    /\ lwait = NotCalled
    /\ lret = NotCalled

IdleStore ==
    /\ storeState = 0
    /\ listeners = <<>>
    /\ dispatched = <<>>
    /\ notified = <<>>
    /\ subs = <<>>
    /\ saves = <<>>
    /\ syncs = <<>>

IdleUwp ==
    /\ first = Resolved(ok(0))
    /\ upc = "idle"
    /\ uruns = 0
    /\ userCalls = 0
    /\ userP = NotCalled
    /\ userResult = NotCalled
    /\ uret = NotCalled

IdleTim ==
    /\ period = 0
    /\ clock = 0
    /\ wcalls = <<>>
    /\ timers = <<>>
    /\ timeoutId = 0
    /\ inThrottle = FALSE
    /\ invoked = <<>>

IdleMemo ==
    /\ memos = <<>>
    /\ mcalls = <<>>
    /\ fnLog = <<>>

(***************************************************************************)
(* The calls a caller makes on a list of Results.                          *)
(***************************************************************************)
NoForm == [username |-> <<>>, password |-> <<>>, confirmPassword |-> <<>>,
           email |-> <<>>, age |-> <<>>]

IdlePure ==
    /\ results = <<>>
    /\ fn = [v \in Values |-> v]
    /\ data = NoForm
    /\ ret = "none"
    /\ spy = <<>>
    /\ op = "none"

InitPure ==
    /\ IdleMemo
    /\ IdleTim
    /\ IdleUwp
    /\ IdleStore
    /\ IdleLim
    /\ IdleTodo
    /\ IdleApi
    /\ IdleOpt
    /\ results \in ResultLists
    /\ fn \in Fns
    /\ data = NoForm
    /\ ret = "none"
    /\ spy = <<>>
    /\ op = "none"
    /\ IdleTask
    /\ IdleFma
    /\ IdlePar

CombineResults ==
    /\ op = "none"
    /\ ret' = combineResults(results)
    /\ op' = "combineResults"
    /\ UNCHANGED <<results, fn, spy, data, notPure>>

Sequence ==
    /\ op = "none"
    /\ ret' = sequence(results)
    /\ op' = "sequence"
    /\ UNCHANGED <<results, fn, spy, data, notPure>>

MapResult ==
    /\ op = "none"
    /\ results # <<>>
    /\ ret' = mapResult(Head(results), fn)
    /\ spy' = spy \o mapResultCalls(Head(results), fn)
    /\ op' = "mapResult"
    /\ UNCHANGED <<results, fn, data, notPure>>

FlatMapResult ==
    /\ op = "none"
    /\ results # <<>>
    /\ \E g \in ResultFns : ret' = flatMapResult(Head(results), g)
    /\ op' = "flatMapResult"
    /\ UNCHANGED <<results, fn, spy, data, notPure>>

MapError ==
    /\ op = "none"
    /\ results # <<>>
    /\ \E g \in ErrorFns : ret' = mapError(Head(results), g)
    /\ op' = "mapError"
    /\ UNCHANGED <<results, fn, spy, data, notPure>>

NextPure ==
    \/ CombineResults
    \/ Sequence
    \/ MapResult
    \/ FlatMapResult
    \/ MapError

SpecResult == InitPure /\ [][NextPure]_vars

(***************************************************************************)
(* Claims about the Result combinators (checked under SpecResult).         *)
(***************************************************************************)
\* The error payloads of the Err elements of rs, in input order.
ErrorsOf(rs) ==
    LET es == SelectSeq(rs, isErr) IN [i \in 1..Len(es) |-> es[i].error]

\* The values of the Ok elements of rs, in input order.
ValuesOf(rs) ==
    LET vs == SelectSeq(rs, isOk) IN [i \in 1..Len(vs) |-> vs[i].value]

HasErr(rs) == \E i \in 1..Len(rs) : isErr(rs[i])

\* The position of the first Err element of rs (rs has one).
FirstErr(rs) ==
    CHOOSE i \in 1..Len(rs) : isErr(rs[i]) /\ \A j \in 1..(i - 1) : isOk(rs[j])

\* C1: combineResults(rs) returns Err of the errors of ALL Err elements, in
\* input order, when rs holds an Err, and otherwise Ok of all the values in
\* input order (Ok(<<>>) for the empty list).
C1_CombineCollectsAll ==
    op = "combineResults" =>
        IF HasErr(results)
        THEN isErr(ret) /\ ret.error = ErrorsOf(results)
        ELSE isOk(ret) /\ ret.value = ValuesOf(results)

\* A list with an Ok between two Errs has been combined into both errors.
C1_Witness ==
    /\ op = "combineResults"
    /\ Len(results) = 3
    /\ isErr(results[1]) /\ isOk(results[2]) /\ isErr(results[3])
    /\ results[1].error # results[3].error
    /\ ret = err(<<results[1].error, results[3].error>>)

\* C9: mapResult(err(e), f) returns the Err it was given and never invokes f;
\* mapResult(ok(v), f) invokes f exactly once, on v, and returns Ok(f(v)).
C9_MapResultShortCircuits ==
    op = "mapResult" =>
        LET r == Head(results)
        IN  IF isErr(r)
            THEN ret = r /\ spy = <<>>
            ELSE isOk(ret) /\ ret.value = fn[r.value] /\ spy = <<r.value>>

\* mapResult has been applied to an Err with a function that is not the identity.
C9_Witness ==
    /\ op = "mapResult"
    /\ isErr(Head(results))
    /\ \E v \in Values : fn[v] # v
    /\ ret = Head(results)

\* C10: sequence(rs) returns Ok of all the values when every element is Ok, and
\* otherwise Err of the error of the first Err element alone; it is Ok exactly
\* when combineResults(rs) is, with the same values, and its error is the first
\* of the errors of combineResults(rs).
C10_SequenceFirstError ==
    op = "sequence" =>
        LET combined == combineResults(results)
        IN  IF HasErr(results)
            THEN /\ isErr(ret)
                 /\ ret.error = results[FirstErr(results)].error
                 /\ isErr(combined)
                 /\ ret.error = Head(combined.error)
            ELSE /\ isOk(ret)
                 /\ ret.value = ValuesOf(results)
                 /\ isOk(combined)
                 /\ ret.value = combined.value

\* sequence has dropped the second of two different errors.
C10_Witness ==
    /\ op = "sequence"
    /\ Len(results) = 3
    /\ isOk(results[1]) /\ isErr(results[2]) /\ isErr(results[3])
    /\ results[2].error # results[3].error
    /\ ret = err(results[2].error)

\* C16: every Result built by ok or err, and every Result returned by
\* mapResult, flatMapResult, mapError, combineResults or sequence, is of
\* exactly one variant: isOk and isErr never agree on it.
C16_ExactlyOneVariant ==
    /\ \A i \in 1..Len(results) : isOk(results[i]) # isErr(results[i])
    /\ op \in {"mapResult", "flatMapResult", "mapError", "combineResults", "sequence"}
            => isOk(ret) # isErr(ret)

\* mapError has rebuilt an Err around a different error.
C16_Witness ==
    /\ op = "mapError"
    /\ isErr(Head(results))
    /\ isErr(ret)
    /\ ret # Head(results)

(***************************************************************************)
(* retryTask and timeoutTask (chapter 8).  Time is counted in ticks: an    *)
(* invocation of the task settles dur ticks after it was made, a timer     *)
(* fires when its count reaches 0, and the continuation of an await runs   *)
(* before any other event is handled.                                      *)
(***************************************************************************)
\* One call of the function retryTask was given: the task itself, or
\* timeoutTask(task, ms), which calls the task and then starts its timer.
InvokeTask(d) ==
    /\ work' = Append(work, [dur |-> d, left |-> d, promise |-> Pending])
    /\ IF cfg.wrapped
       THEN /\ timer' = Append(timer, [st |-> "armed", left |-> cfg.ms])
            /\ race' = Append(race, Pending)
       ELSE UNCHANGED <<timer, race>>

\* The promise the i-th call returned.
Awaited(i) == IF cfg.wrapped THEN race[i] ELSE work[i].promise

\* The await of retryTask can continue.
Runnable == rpc = "awaitTask" /\ Awaited(Len(work)).kind # "pending"

\* A faulty loop test: attempt < maxAttempts.
LoopStopsEarly(a, maxAttempts) == a < maxAttempts

\* A loop that tests after its body: the first attempt is always made.
LoopRunsOnce(a, maxAttempts) == a = 1 \/ a <= maxAttempts

\* attempt <= maxAttempts
LoopContinues(a, maxAttempts) == a <= maxAttempts

\* if (attempt < maxAttempts)
ShouldWait(a, maxAttempts) == a < maxAttempts

\* A constant backoff: the delay does not grow with the attempt.
BackoffConstant(delay, a) == delay

\* delay * attempt
Backoff(delay, a) == delay * a

\* A faulty retry test: an Err Result is treated as a fault.
IsFaultOrErr(promise) ==
    \/ promise.kind = "rejected"
    \/ promise.kind = "resolved" /\ isErr(promise.v)

\* await task() throws: the catch block runs.
IsFault(promise) == promise.kind = "rejected"

\* attempt++, the loop test, and then the next task() or throw lastError.
NextIteration(error) ==
    /\ attempt' = attempt + 1
    /\ IF LoopContinues(attempt + 1, cfg.maxAttempts)
       THEN /\ \E d \in 0..MaxDur : InvokeTask(d)
            /\ rpc' = "awaitTask"
            /\ UNCHANGED rret
       ELSE /\ rpc' = "done"
            /\ rret' = Rejected(error)
            /\ UNCHANGED <<work, timer, race>>

InitRetry ==
    /\ IdleMemo
    /\ IdleTim
    /\ IdleUwp
    /\ IdleStore
    /\ IdleLim
    /\ IdleTodo
    /\ IdleApi
    /\ IdleOpt
    /\ cfg \in Configs
    /\ work = <<>>
    /\ timer = <<>>
    /\ race = <<>>
    /\ rpc = "idle"
    /\ attempt = 0
    /\ lastError = Undefined
    /\ sleep = 0
    /\ waits = <<>>
    /\ rret = Pending
    /\ IdlePure
    /\ IdleFma
    /\ IdlePar

\* The loop of retryTask's async function starts: attempt = 1, the loop test,
\* and then the first task() or throw lastError.
RetryStart ==
    /\ rpc = "idle"
    /\ attempt' = 1
    /\ IF LoopContinues(1, cfg.maxAttempts)
       THEN /\ \E d \in 0..MaxDur : InvokeTask(d)
            /\ rpc' = "awaitTask"
            /\ UNCHANGED rret
       ELSE /\ rpc' = "done"
            /\ rret' = Rejected(lastError)
            /\ UNCHANGED <<work, timer, race>>
    /\ UNCHANGED <<cfg, lastError, sleep, waits>>

\* The task retryTask returned is called.
RetryRun ==
    /\ RetryStart
    /\ UNCHANGED notTask

\* The awaited promise has settled: return its value, or catch its fault.
RetryResume ==
    /\ rpc = "awaitTask"
    /\ Awaited(Len(work)).kind # "pending"
    /\ LET p == Awaited(Len(work))
       IN  IF ~IsFault(p)
           THEN /\ rpc' = "done"
                /\ rret' = Resolved(p.v)
                /\ UNCHANGED <<attempt, lastError, sleep, waits, work, timer, race>>
           ELSE /\ lastError' = p.v
                /\ IF ShouldWait(attempt, cfg.maxAttempts)
                   THEN /\ rpc' = "awaitDelay"
                        /\ sleep' = Backoff(cfg.delay, attempt)
                        /\ waits' = Append(waits, Backoff(cfg.delay, attempt))
                        /\ UNCHANGED <<attempt, work, timer, race, rret>>
                   ELSE /\ NextIteration(p.v)
                        /\ UNCHANGED <<sleep, waits>>
    /\ UNCHANGED <<cfg, notTask>>

\* The delay is over.
RetryWake ==
    /\ rpc = "awaitDelay"
    /\ sleep = 0
    /\ NextIteration(lastError)
    /\ UNCHANGED <<cfg, lastError, sleep, waits, notTask>>

\* The i-th invocation of the task settles.
TaskSettle(i) ==
    /\ work[i].promise.kind = "pending"
    /\ work[i].left = 0
    /\ ~Runnable
    /\ work' = [work EXCEPT ![i].promise = TaskOutcome(i)]
    /\ IF cfg.wrapped
       THEN race' = [race EXCEPT ![i] = Settle(race[i], TaskOutcome(i))]
       ELSE UNCHANGED race
    /\ UNCHANGED <<cfg, timer, rpc, attempt, lastError, sleep, waits, rret, notTask>>

\* A faulty timer: it cancels the invocation of the task it raced.
TimerFireCancels(i) ==
    /\ timer[i].st = "armed"
    /\ timer[i].left = 0
    /\ ~Runnable
    /\ timer' = [timer EXCEPT ![i].st = "fired"]
    /\ race' = [race EXCEPT ![i] = Settle(race[i], Rejected(TimeoutError))]
    /\ work' = [work EXCEPT ![i].promise =
                    IF @.kind = "pending" THEN [kind |-> "cancelled"] ELSE @]
    /\ UNCHANGED <<cfg, rpc, attempt, lastError, sleep, waits, rret, notTask>>

\* The timer of the i-th invocation of timeoutTask fires.
TimerFire(i) ==
    /\ timer[i].st = "armed"
    /\ timer[i].left = 0
    /\ ~Runnable
    /\ timer' = [timer EXCEPT ![i].st = "fired"]
    /\ race' = [race EXCEPT ![i] = Settle(race[i], Rejected(TimeoutError))]
    /\ UNCHANGED <<cfg, work, rpc, attempt, lastError, sleep, waits, rret, notTask>>

\* A tick passes: nothing is due and something is still counting.
Tick ==
    /\ ~Runnable
    /\ \A i \in DOMAIN work : work[i].promise.kind = "pending" => work[i].left > 0
    /\ \A i \in DOMAIN timer : timer[i].st = "armed" => timer[i].left > 0
    /\ rpc = "awaitDelay" => sleep > 0
    /\ \/ \E i \in DOMAIN work : work[i].promise.kind = "pending"
       \/ \E i \in DOMAIN timer : timer[i].st = "armed"
       \/ rpc = "awaitDelay"
    /\ work' = [i \in DOMAIN work |->
                   IF work[i].promise.kind = "pending"
                   THEN [work[i] EXCEPT !.left = @ - 1] ELSE work[i]]
    /\ timer' = [i \in DOMAIN timer |->
                    IF timer[i].st = "armed"
                    THEN [timer[i] EXCEPT !.left = @ - 1] ELSE timer[i]]
    /\ sleep' = IF rpc = "awaitDelay" THEN sleep - 1 ELSE sleep
    /\ UNCHANGED <<cfg, race, rpc, attempt, lastError, waits, rret, notTask>>

NextRetry ==
    \/ RetryRun
    \/ RetryResume
    \/ RetryWake
    \/ \E i \in DOMAIN work : TaskSettle(i)
    \/ \E i \in DOMAIN timer : TimerFire(i)
    \/ Tick

SpecRetry == InitRetry /\ [][NextRetry]_vars

(***************************************************************************)
(* Claims about retryTask and timeoutTask (checked under SpecRetry).       *)
(***************************************************************************)
Min(a, b) == IF a <= b THEN a ELSE b

\* C3: applied to the task itself with maxAttempts >= 1, a run of retryTask
\* invokes the task min(faults + 1, maxAttempts) times: it resolves with the
\* task's value when faults < maxAttempts, and otherwise rejects with the fault
\* of the invocation numbered maxAttempts.
C3_RetryInvocationCount ==
    (~cfg.wrapped /\ cfg.maxAttempts >= 1) =>
        /\ Len(work) <= Min(cfg.faults + 1, cfg.maxAttempts)
        /\ rpc = "done" =>
               /\ Len(work) = Min(cfg.faults + 1, cfg.maxAttempts)
               /\ IF cfg.faults < cfg.maxAttempts
                  THEN rret = Resolved(cfg.value)
                  ELSE rret = Rejected(Fault(cfg.maxAttempts))

\* The task that faults twice and then succeeds, retried with maxAttempts = 3,
\* has resolved after 3 invocations.
C3_Witness ==
    /\ ~cfg.wrapped
    /\ cfg.faults = 2
    /\ cfg.maxAttempts = 3
    /\ rpc = "done"
    /\ Len(work) = 3
    /\ rret = Resolved(cfg.value)

\* C4: once a call made by retryTask has resolved, to an Err Result as well, no
\* later call and no later wait is made, and the run resolves to that value.
C4_NoRetryAfterResolution ==
    \A i \in DOMAIN work :
        Awaited(i).kind = "resolved" =>
            /\ Len(work) = i
            /\ Len(waits) = i - 1
            /\ rpc \in {"awaitTask", "done"}
            /\ rpc = "done" => rret = Resolved(Awaited(i).v)

\* The second call resolved to an Err Result with attempts left, and the run
\* has resolved to it.
C4_Witness ==
    /\ rpc = "done"
    /\ Len(work) = 2
    /\ cfg.maxAttempts > 2
    /\ Awaited(2) = Resolved(err("a"))
    /\ rret = Resolved(err("a"))

Settled(promise) == promise.kind # "pending"

C6_Race ==
    cfg.wrapped =>
        /\ Len(race) = Len(work)
        /\ Len(timer) = Len(work)
        /\ \A i \in DOMAIN race :
            /\ ~Settled(race[i]) <=>
                   (~Settled(work[i].promise) /\ timer[i].st = "armed")
            /\ (~Settled(work[i].promise) /\ timer[i].st = "armed") =>
                   work[i].dur - work[i].left = cfg.ms - timer[i].left
            /\ Settled(race[i]) =>
                   /\ race[i] \in {TaskOutcome(i), Rejected(TimeoutError)}
                   /\ work[i].dur < cfg.ms => race[i] = TaskOutcome(i)
                   /\ work[i].dur > cfg.ms => race[i] = Rejected(TimeoutError)

C6_Once ==
    \A i \in DOMAIN race : Settled(race[i]) => race'[i] = race[i]

\* C6: every call of timeoutTask(task, ms) invokes the task once and starts its
\* timer at that moment; its promise settles once, at the first of the two
\* events: with the task's outcome when the task settles before ms has elapsed,
\* and with the Timeout fault when the timer elapses first.
C6_TimeoutRace == []C6_Race /\ [][C6_Once]_vars

\* The task settled before the timer elapsed, and the timer has fired since.
C6_Witness ==
    /\ cfg.wrapped
    /\ \E i \in DOMAIN race :
        /\ work[i].dur < cfg.ms
        /\ race[i] = TaskOutcome(i)
        /\ timer[i].st = "fired"

C7_Step ==
    /\ \A i \in DOMAIN work :
        ~Settled(work[i].promise) =>
            \/ /\ ~Settled(work'[i].promise)
               /\ work'[i].left \in {work[i].left, work[i].left - 1}
            \/ /\ work[i].left = 0
               /\ work'[i].promise = TaskOutcome(i)
    /\ \A i \in DOMAIN race : Settled(race[i]) => race'[i] = race[i]
    /\ rpc = "done" => (rpc' = "done" /\ rret' = rret)

\* C7: an invocation of the task that lost the race to the timer is left
\* running: it stays pending until it settles by itself, and its settlement
\* changes neither the promise of the race nor the result of a finished run.
C7_NoCancellation == [][C7_Step]_vars

\* Under retryTask(timeoutTask(task, ms), n) a new attempt is in flight while
\* the task invoked by an earlier, timed-out attempt is still running.
C7_Witness ==
    /\ cfg.wrapped
    /\ \E i \in DOMAIN work : \E j \in DOMAIN work :
        /\ i < j
        /\ race[i] = Rejected(TimeoutError)
        /\ ~Settled(work[i].promise)
        /\ ~Settled(work[j].promise)
        /\ ~Settled(race[j])

\* What holds of the waits of a run in every state.
C13_Waits ==
    /\ \A a \in DOMAIN waits : waits[a] = cfg.delay * a
    /\ Len(waits) < cfg.maxAttempts \/ waits = <<>>
    /\ rpc = "awaitTask" => Len(waits) = attempt - 1 /\ Len(work) = attempt
    /\ rpc = "awaitDelay" =>
           /\ attempt < cfg.maxAttempts
           /\ Len(work) = attempt
           /\ Len(waits) = attempt
           /\ IsFault(Awaited(attempt))
           /\ sleep <= cfg.delay * attempt
    /\ (rpc = "done" /\ rret.kind = "rejected" /\ cfg.maxAttempts >= 1) =>
           /\ Len(work) = cfg.maxAttempts
           /\ Len(waits) = cfg.maxAttempts - 1
           /\ rret = Rejected(Awaited(cfg.maxAttempts).v)

\* What holds of every step of a run.
C13_Step ==
    /\ (Len(work) >= 1 /\ Len(work') > Len(work)) =>
           rpc = "awaitDelay" /\ sleep = 0 /\ Len(work') = Len(work) + 1
    /\ (rpc = "awaitDelay" /\ sleep' # sleep) => sleep' = sleep - 1
    /\ (rpc = "awaitTask" /\ rpc' # "awaitTask" /\ attempt = cfg.maxAttempts
            /\ IsFault(Awaited(attempt))) =>
           /\ rpc' = "done"
           /\ rret' = Rejected(Awaited(attempt).v)
           /\ waits' = waits

\* C13: retryTask backs off linearly, between attempts only: when the a-th
\* attempt has faulted and a < maxAttempts it waits delay * a and only then
\* starts attempt a + 1; when the attempt numbered maxAttempts has faulted it
\* waits for nothing and rejects with that fault in the same step; nothing is
\* waited for before the first attempt.
C13_LinearBackoff == []C13_Waits /\ [][C13_Step]_vars

\* Three attempts have faulted with delay 1: the waits were 1 and 2, and none
\* followed the third fault.
C13_Witness ==
    /\ cfg.maxAttempts = 3
    /\ cfg.delay = 1
    /\ rpc = "done"
    /\ rret.kind = "rejected"
    /\ waits = <<1, 2>>

\* C30: with maxAttempts <= 0 the run of retryTask never invokes the task and
\* never waits; it rejects as soon as it is called, with the lastError no
\* fault was assigned to, which is none of the faults the task or its
\* timeout produce.
C30_NoAttempts ==
    cfg.maxAttempts <= 0 =>
        /\ work = <<>> /\ timer = <<>>
        /\ waits = <<>> /\ sleep = 0
        /\ rpc \in {"idle", "done"}
        /\ rpc = "done" =>
              /\ rret = Rejected(lastError)
              /\ lastError = Undefined
              /\ rret.v # TimeoutError
              /\ \A j \in 1..MaxFaults : rret.v # Fault(j)

\* A run with a negative maxAttempts over a task that would fault has rejected.
C30_Witness ==
    /\ cfg.maxAttempts < 0
    /\ cfg.faults > 0
    /\ rpc = "done"
    /\ work = <<>>
    /\ rret = Rejected(Undefined)

(***************************************************************************)
(* flatMapAsync (chapter 8).                                               *)
(***************************************************************************)
\* What an AsyncResult task settles with: a Result, or a fault.
InnerOutcomes ==
    {Resolved(r) : r \in Results} \cup {Rejected(Fault(0))}

SecondOutcomes ==
    {Resolved(ok(v)) : v \in Values} \cup {Resolved(err("b")), Rejected(Fault(1))}

InitFma ==
    /\ IdleMemo
    /\ IdleTim
    /\ IdleUwp
    /\ IdleStore
    /\ IdleLim
    /\ IdleTodo
    /\ IdleApi
    /\ IdleOpt
    /\ inner \in InnerOutcomes
    /\ ffn \in [Values -> SecondOutcomes]
    /\ fpc = "idle"
    /\ innerP = NotCalled
    /\ secondP = NotCalled
    /\ runs = 0
    /\ innerCalls = 0
    /\ fnCalls = <<>>
    /\ secondCalls = 0
    /\ fret = NotCalled
    /\ IdlePure
    /\ IdleTask
    /\ IdlePar

\* The call of the task flatMapAsync returned: it calls asyncResult() and awaits.
FmaStart ==
    /\ fpc \in {"idle", "done"}
    /\ runs < MaxRuns
    /\ runs' = runs + 1
    /\ innerCalls' = innerCalls + 1
    /\ innerP' = Pending
    /\ secondP' = NotCalled
    /\ fret' = Pending
    /\ fpc' = "awaitInner"
    /\ UNCHANGED <<inner, ffn, fnCalls, secondCalls>>

\* A faulty run: the inner task is invoked only by the first run.
FmaRunMemoized ==
    /\ fpc \in {"idle", "done"}
    /\ runs < MaxRuns
    /\ runs' = runs + 1
    /\ innerCalls' = IF runs = 0 THEN 1 ELSE innerCalls
    /\ innerP' = IF runs = 0 THEN Pending ELSE innerP
    /\ secondP' = NotCalled
    /\ fret' = Pending
    /\ fpc' = "awaitInner"
    /\ UNCHANGED <<inner, ffn, fnCalls, secondCalls, notFma>>

\* The task flatMapAsync returned is called by a caller of its own.
FmaRun ==
    /\ FmaStart
    /\ UNCHANGED notFma

\* The inner task settles.
FmaInnerSettle ==
    /\ innerP.kind = "pending"
    /\ innerP' = inner
    /\ UNCHANGED <<inner, ffn, fpc, secondP, runs, innerCalls, fnCalls, secondCalls,
                   fret, notFma>>

\* The await continues: an Err is returned, or fn(result.value)() is called and
\* its promise returned.
FmaResume ==
    /\ fpc = "awaitInner"
    /\ innerP.kind \in {"resolved", "rejected"}
    /\ IF innerP.kind = "rejected"
       THEN /\ fret' = Rejected(innerP.v)
            /\ fpc' = "done"
            /\ UNCHANGED <<fnCalls, secondCalls, secondP>>
       ELSE IF isErr(innerP.v)
       THEN /\ fret' = Resolved(innerP.v)
            /\ fpc' = "done"
            /\ UNCHANGED <<fnCalls, secondCalls, secondP>>
       ELSE /\ fnCalls' = Append(fnCalls, innerP.v.value)
            /\ secondCalls' = secondCalls + 1
            /\ secondP' = Pending
            /\ fpc' = "awaitSecond"
            /\ UNCHANGED fret
    /\ UNCHANGED <<inner, ffn, innerP, runs, innerCalls, notFma>>

\* The task fn returned settles.
FmaSecondSettle ==
    /\ secondP.kind = "pending"
    /\ secondP' = ffn[fnCalls[Len(fnCalls)]]
    /\ UNCHANGED <<inner, ffn, fpc, innerP, runs, innerCalls, fnCalls, secondCalls,
                   fret, notFma>>

\* The promise the async function returned is settled as the one it was given.
FmaAdopt ==
    /\ fpc = "awaitSecond"
    /\ secondP.kind \in {"resolved", "rejected"}
    /\ fret' = secondP
    /\ fpc' = "done"
    /\ UNCHANGED <<inner, ffn, innerP, secondP, runs, innerCalls, fnCalls,
                   secondCalls, notFma>>

NextFma ==
    \/ FmaRun
    \/ FmaInnerSettle
    \/ FmaResume
    \/ FmaSecondSettle
    \/ FmaAdopt

SpecFma == InitFma /\ [][NextFma]_vars

\* C5: every run of flatMapAsync(task, fn) invokes the inner task once; when
\* it resolves to Err(e) the run resolves to that Err and fn is not invoked;
\* when it resolves to Ok(v), fn is invoked once, with v, the task it returns is
\* invoked once, and the run settles as that task does, with its Result itself.
C5_FlatMapAsync ==
    /\ innerCalls = runs
    /\ secondCalls = Len(fnCalls)
    /\ (inner.kind = "rejected" \/ isErr(inner.v)) =>
           /\ fnCalls = <<>>
           /\ fpc = "done" =>
                  fret = IF inner.kind = "rejected" THEN Rejected(inner.v)
                         ELSE Resolved(inner.v)
    /\ (inner.kind = "resolved" /\ isOk(inner.v)) =>
           /\ Len(fnCalls) = IF fpc \in {"awaitSecond", "done"} THEN runs
                             ELSE IF runs = 0 THEN 0 ELSE runs - 1
           /\ \A i \in DOMAIN fnCalls : fnCalls[i] = inner.v.value
           /\ fpc = "done" => fret = ffn[inner.v.value]

\* The inner task resolved to an Err in each of two runs: fn was never invoked
\* and the run resolved to that Err.
C5_Witness ==
    /\ fpc = "done"
    /\ runs = 2
    /\ innerCalls = 2
    /\ inner.kind = "resolved"
    /\ isErr(inner.v)
    /\ fnCalls = <<>>
    /\ fret = inner

(***************************************************************************)
(* parallel (chapter 8).                                                   *)
(***************************************************************************)
TaskKinds == {"ok", "err", "fault"}

PTasks == [dur : 0..MaxDur, kind : TaskKinds]

\* What the i-th task settles with.
POutcome(i) ==
    CASE ptasks[i].kind = "ok" -> Resolved(ok(i))
      [] ptasks[i].kind = "err" -> Resolved(err(i))
      [] ptasks[i].kind = "fault" -> Rejected(Fault(i))

\* A faulty Promise.all: an Err Result settles it at once.
PromiseAllErrShort(all, pw, i) ==
    IF all.kind # "pending" THEN all
    ELSE IF pw[i].promise.kind = "rejected" THEN Rejected(pw[i].promise.v)
    ELSE IF isErr(pw[i].promise.v) THEN Resolved(<<pw[i].promise.v>>)
    ELSE IF \A j \in DOMAIN pw : pw[j].promise.kind = "resolved"
    THEN Resolved([j \in DOMAIN pw |-> pw[j].promise.v])
    ELSE all

\* Promise.all when the i-th of its promises has settled: it rejects with the
\* first rejection, and resolves with all the values once all have resolved.
PromiseAll(all, pw, i) ==
    IF all.kind # "pending" THEN all
    ELSE IF pw[i].promise.kind = "rejected" THEN Rejected(pw[i].promise.v)
    ELSE IF \A j \in DOMAIN pw : pw[j].promise.kind = "resolved"
    THEN Resolved([j \in DOMAIN pw |-> pw[j].promise.v])
    ELSE all

InitPar ==
    /\ IdleMemo
    /\ IdleTim
    /\ IdleUwp
    /\ IdleStore
    /\ IdleLim
    /\ IdleTodo
    /\ IdleApi
    /\ IdleOpt
    /\ ptasks \in UNION {[1..n -> PTasks] : n \in 0..MaxTasks}
    /\ pwork = <<>>
    /\ pall = NotCalled
    /\ ppc = "idle"
    /\ IdlePure
    /\ IdleTask
    /\ IdleFma

\* The task parallel returned is called: tasks.map(task => task()) invokes
\* every task, and Promise.all takes their promises.
ParallelRun ==
    /\ ppc = "idle"
    /\ pwork' = [i \in DOMAIN ptasks |->
                    [left |-> ptasks[i].dur, promise |-> Pending]]
    /\ pall' = IF ptasks = <<>> THEN Resolved(<<>>) ELSE Pending
    /\ ppc' = "running"
    /\ UNCHANGED <<ptasks, notPar>>

\* The i-th task settles.
PTaskSettle(i) ==
    /\ pwork[i].promise.kind = "pending"
    /\ pwork[i].left = 0
    /\ LET pw == [pwork EXCEPT ![i].promise = POutcome(i)]
       IN  /\ pwork' = pw
           /\ pall' = PromiseAll(pall, pw, i)
    /\ UNCHANGED <<ptasks, ppc, notPar>>

\* A tick passes: no task is due and some task is still running.
PTick ==
    /\ \A i \in DOMAIN pwork : pwork[i].promise.kind = "pending" => pwork[i].left > 0
    /\ \E i \in DOMAIN pwork : pwork[i].promise.kind = "pending"
    /\ pwork' = [i \in DOMAIN pwork |->
                    IF pwork[i].promise.kind = "pending"
                    THEN [pwork[i] EXCEPT !.left = @ - 1] ELSE pwork[i]]
    /\ UNCHANGED <<ptasks, pall, ppc, notPar>>

NextPar ==
    \/ ParallelRun
    \/ \E i \in DOMAIN pwork : PTaskSettle(i)
    \/ PTick

SpecPar == InitPar /\ [][NextPar]_vars

HasFault == \E i \in DOMAIN ptasks : ptasks[i].kind = "fault"

AllInvoked == ppc = "running" => Len(pwork) = Len(ptasks)

\* C8 as stated: every task is invoked before any is waited for, and the run
\* settles only after all tasks have settled, whichever task fails.
C8_AsStated ==
    /\ AllInvoked
    /\ (ppc = "running" /\ pall.kind # "pending") =>
           \A i \in DOMAIN pwork : pwork[i].promise.kind # "pending"

\* C8 (amended): every task is invoked before any is waited for.  A task that
\* resolves, to Err as well as to Ok, does not settle the run: the run resolves
\* only when all tasks have resolved, with their values in task order.  A task
\* that rejects settles the run at once: the run rejects with the first
\* rejection, while other tasks may still be pending.
C8_ParallelAll ==
    /\ AllInvoked
    /\ ppc = "running" =>
        /\ pall.kind = "resolved" =>
               /\ \A i \in DOMAIN pwork : pwork[i].promise.kind = "resolved"
               /\ pall.v = [i \in DOMAIN ptasks |-> POutcome(i).v]
        /\ pall.kind = "rejected" =>
               \E i \in DOMAIN ptasks :
                   /\ ptasks[i].kind = "fault"
                   /\ pall = Rejected(Fault(i))
                   /\ pwork[i].promise = Rejected(Fault(i))
                   /\ \A j \in DOMAIN ptasks :
                          ptasks[j].kind = "fault" => ptasks[i].dur <= ptasks[j].dur
        /\ pall.kind = "pending" =>
               /\ \E i \in DOMAIN pwork : pwork[i].promise.kind = "pending"
               /\ \A i \in DOMAIN pwork : pwork[i].promise.kind # "rejected"
        /\ ~HasFault =>
               (pall.kind # "pending" =>
                    \A i \in DOMAIN pwork : pwork[i].promise.kind # "pending")

\* A task resolved to Err while a later one was still running, and the run
\* has resolved with all the results.
C8_Witness ==
    /\ ppc = "running"
    /\ pall.kind = "resolved"
    /\ \E i \in DOMAIN ptasks : \E j \in DOMAIN ptasks :
        /\ i < j
        /\ ptasks[i].kind = "err"
        /\ ptasks[j].kind = "ok"
        /\ ptasks[i].dur < ptasks[j].dur
        /\ pall.v[i] = err(i)
        /\ pall.v[j] = ok(j)

(***************************************************************************)
(* Form validation (chapter 7, exercise 2).  A string is the sequence of   *)
(* its characters.                                                          *)
(***************************************************************************)
LowerChars ==
    {"a", "b", "c", "d", "e", "f", "g", "h", "i", "j", "k", "l", "m",
     "n", "o", "p", "q", "r", "s", "t", "u", "v", "w", "x", "y", "z"}

UpperChars ==
    {"A", "B", "C", "D", "E", "F", "G", "H", "I", "J", "K", "L", "M",
     "N", "O", "P", "Q", "R", "S", "T", "U", "V", "W", "X", "Y", "Z"}

DigitChars == {"0", "1", "2", "3", "4", "5", "6", "7", "8", "9"}

DigitValue(c) ==
    CASE c = "0" -> 0 [] c = "1" -> 1 [] c = "2" -> 2 [] c = "3" -> 3
      [] c = "4" -> 4 [] c = "5" -> 5 [] c = "6" -> 6 [] c = "7" -> 7
      [] c = "8" -> 8 [] c = "9" -> 9

\* /^[a-zA-Z0-9_]+$/.test(s)
matchesWord(s) ==
    /\ Len(s) >= 1
    /\ \A i \in 1..Len(s) : s[i] \in LowerChars \cup UpperChars \cup DigitChars \cup {"_"}

\* s.includes(c)
includes(s, c) == \E i \in 1..Len(s) : s[i] = c

RECURSIVE skipSpaces(_)
skipSpaces(s) ==
    IF s # <<>> /\ Head(s) = " " THEN skipSpaces(Tail(s)) ELSE s

RECURSIVE digitPrefix(_)
digitPrefix(s) ==
    IF s # <<>> /\ Head(s) \in DigitChars
    THEN <<Head(s)>> \o digitPrefix(Tail(s))
    ELSE <<>>

RECURSIVE decimal(_, _)
decimal(ds, acc) ==
    IF ds = <<>> THEN acc ELSE decimal(Tail(ds), 10 * acc + DigitValue(Head(ds)))

\* parseInt(s, 10): leading white space is skipped, a sign is read, then the
\* longest run of digits; NaN when that run is empty.
parseInt(s) ==
    LET t == skipSpaces(s)
        neg == t # <<>> /\ Head(t) = "-"
        u == IF t # <<>> /\ Head(t) \in {"-", "+"} THEN Tail(t) ELSE t
        ds == digitPrefix(u)
    IN  IF ds = <<>> THEN [nan |-> TRUE, n |-> 0]
        ELSE [nan |-> FALSE, n |-> IF neg THEN 0 - decimal(ds, 0) ELSE decimal(ds, 0)]

validateEmail(email) ==
    IF ~includes(email, "@")
    THEN err([field |-> "email", message |-> "Invalid email format"])
    ELSE ok(email)

validateAge(age) ==
    IF age < 0 \/ age > 150
    THEN err([field |-> "age", message |-> "Age must be between 0 and 150"])
    ELSE ok(age)

validateUsername(username) ==
    IF Len(username) < 3
    THEN err([field |-> "username",
              message |-> "Username must be at least 3 characters"])
    ELSE IF ~matchesWord(username)
    THEN err([field |-> "username",
              message |-> "Username can only contain letters, numbers, and underscores"])
    ELSE ok(username)

\* A faulty validatePassword: the two checks are made in the other order.
validatePasswordMismatchFirst(password, confirmPassword) ==
    IF password # confirmPassword
    THEN err([field |-> "confirmPassword", message |-> "Passwords do not match"])
    ELSE IF Len(password) < 8
    THEN err([field |-> "password",
              message |-> "Password must be at least 8 characters"])
    ELSE ok(password)

validatePassword(password, confirmPassword) ==
    IF Len(password) < 8
    THEN err([field |-> "password",
              message |-> "Password must be at least 8 characters"])
    ELSE IF password # confirmPassword
    THEN err([field |-> "confirmPassword", message |-> "Passwords do not match"])
    ELSE ok(password)

validateAgeString(ageStr) ==
    LET age == parseInt(ageStr)
    IN  IF age.nan
        THEN err([field |-> "age", message |-> "Age must be a number"])
        ELSE validateAge(age.n)

validateForm(d) ==
    LET validations ==
            << validateUsername(d.username),
               validatePassword(d.password, d.confirmPassword),
               validateEmail(d.email),
               validateAgeString(d.age) >>
        combined == combineResults(validations)
    IN  IF isErr(combined) THEN combined
        ELSE ok([username |-> combined.value[1],
                 password |-> combined.value[2],
                 email |-> combined.value[3],
                 age |-> combined.value[4]])

\* The strings the validators are tried on, as sequences of characters.
Str ==
    [ U_AB |-> <<"a", "b">>,
      U_ABC |-> <<"a", "b", "c">>,
      U_BANG |-> <<"a", "!", "c">>,
      U_USER1 |-> <<"u", "s", "e", "r", "_", "1">>,
      P_SHORT |-> <<"s", "h", "o", "r", "t">>,
      P_MISMATCH |-> <<"m", "i", "s", "m", "a", "t", "c", "h">>,
      P_PASSWORD1 |-> <<"p", "a", "s", "s", "w", "o", "r", "d", "1">>,
      E_BAD |-> <<"b", "a", "d">>,
      E_GOOD |-> <<"a", "@", "b", ".", "c">>,
      A_X |-> <<"x">>,
      A_42 |-> <<"4", "2">>,
      A_200 |-> <<"2", "0", "0">>,
      A_NEG |-> <<"-", "5">>,
      A_SPACE7 |-> <<" ", "7">>,
      A_12ABC |-> <<"1", "2", "a", "b", "c">>,
      N_EMPTY |-> <<>>,
      N_A |-> <<"a">>,
      N_AL |-> <<"A", "l">>,
      N_BOB |-> <<"B", "o", "b">>,
      E_AT |-> <<"@">> ]

Usernames == {Str.U_AB, Str.U_ABC, Str.U_BANG, Str.U_USER1}

Passwords == {Str.P_SHORT, Str.P_MISMATCH, Str.P_PASSWORD1}

Emails == {Str.E_BAD, Str.E_GOOD}

Ages == {Str.A_X, Str.A_42, Str.A_200, Str.A_NEG, Str.A_SPACE7, Str.A_12ABC}

Forms ==
    [username : Usernames, password : Passwords, confirmPassword : Passwords,
     email : Emails, age : Ages]

InitForm ==
    /\ IdleMemo
    /\ IdleTim
    /\ IdleUwp
    /\ IdleStore
    /\ IdleLim
    /\ IdleTodo
    /\ IdleApi
    /\ IdleOpt
    /\ data \in Forms
    /\ results = <<>>
    /\ fn = [v \in Values |-> v]
    /\ ret = "none"
    /\ spy = <<>>
    /\ op = "none"
    /\ IdleTask
    /\ IdleFma
    /\ IdlePar

ValidateForm ==
    /\ op = "none"
    /\ ret' = validateForm(data)
    /\ op' = "validateForm"
    /\ UNCHANGED <<results, fn, spy, data, notPure>>

NextForm == ValidateForm

SpecForm == InitForm /\ [][NextForm]_vars

(***************************************************************************)
(* Claims about validateForm (checked under SpecForm).                     *)
(***************************************************************************)
\* The form of the end-to-end scenario.
ScenarioForm ==
    [username |-> Str.U_AB, password |-> Str.P_SHORT,
     confirmPassword |-> Str.P_MISMATCH, email |-> Str.E_BAD, age |-> Str.A_X]

FieldsOf(errors) == [i \in 1..Len(errors) |-> errors[i].field]

\* The field each validator of validateForm reports, "" when it passes.
UsernameField(d) ==
    IF Len(d.username) < 3 \/ ~matchesWord(d.username) THEN "username" ELSE ""

PasswordField(d) ==
    IF Len(d.password) < 8 THEN "password"
    ELSE IF d.password # d.confirmPassword THEN "confirmPassword"
    ELSE ""

EmailField(d) == IF includes(d.email, "@") THEN "" ELSE "email"

AgeField(d) ==
    LET age == parseInt(d.age)
    IN  IF age.nan \/ age.n < 0 \/ age.n > 150 THEN "age" ELSE ""

ExpectedFields(d) ==
    SelectSeq(<<UsernameField(d), PasswordField(d), EmailField(d), AgeField(d)>>,
              LAMBDA f : f # "")

\* C2 as stated: a password both shorter than 8 characters and different from
\* confirmPassword yields a 'password' and a 'confirmPassword' error, and the
\* scenario form yields exactly five errors.
C2_AsStated ==
    op = "validateForm" =>
        /\ (Len(data.password) < 8 /\ data.password # data.confirmPassword) =>
               /\ isErr(ret)
               /\ \E i \in 1..Len(ret.error) : ret.error[i].field = "password"
               /\ \E i \in 1..Len(ret.error) : ret.error[i].field = "confirmPassword"
        /\ data = ScenarioForm => (isErr(ret) /\ Len(ret.error) = 5)

\* C2 (amended): validateForm returns Err exactly when a validator fails, with
\* one error per failing validator (username, password, email, age) in that
\* order, all of them and not just the first; the password validator reports
\* one error: 'password' when the password is shorter than 8 characters,
\* otherwise 'confirmPassword' when the two differ.  The scenario form yields
\* the four errors username, password, email, age.
C2_OneErrorPerValidator ==
    op = "validateForm" =>
        /\ IF ExpectedFields(data) # <<>>
           THEN isErr(ret) /\ FieldsOf(ret.error) = ExpectedFields(data)
           ELSE /\ isOk(ret)
                /\ ret.value.username = data.username
                /\ ret.value.password = data.password
                /\ ret.value.email = data.email
                /\ ret.value.age = parseInt(data.age).n
        /\ data = ScenarioForm =>
               FieldsOf(ret.error) = <<"username", "password", "email", "age">>

\* The scenario form has been validated.
C2_Witness ==
    /\ op = "validateForm"
    /\ data = ScenarioForm
    /\ isErr(ret)
    /\ Len(ret.error) = 4

(***************************************************************************)
(* validateUser of chapter 7: three validators, all of them run.           *)
(***************************************************************************)
validateName(name) ==
    IF Len(name) < 2
    THEN err([field |-> "name", message |-> "Name must be at least 2 characters"])
    ELSE ok(name)

\* The validators validateUser invokes, with their arguments, in order: the
\* array literal evaluates the three calls before combineResults sees any.
validateUserCalls(name, email, age) ==
    <<[fn |-> "validateName", arg |-> name],
      [fn |-> "validateEmail", arg |-> email],
      [fn |-> "validateAge", arg |-> age]>>

\* A validateUser that hands the valid name and email back in each other's place.
validateUserSwapped(name, email, age) ==
    LET combined ==
            combineResults(<<validateName(name), validateEmail(email), validateAge(age)>>)
    IN  IF isErr(combined) THEN combined
        ELSE ok([name |-> combined.value[2], email |-> combined.value[1],
                 age |-> combined.value[3]])

validateUser(name, email, age) ==
    LET combined ==
            combineResults(<<validateName(name), validateEmail(email), validateAge(age)>>)
    IN  IF isErr(combined) THEN combined
        ELSE ok([name |-> combined.value[1], email |-> combined.value[2],
                 age |-> combined.value[3]])

Names == {Str.N_EMPTY, Str.N_A, Str.N_AL, Str.N_BOB}

UserEmails == {Str.E_BAD, Str.E_GOOD, Str.E_AT}

UserAges == {0 - 1, 0, 42, 150, 151}

Users == [name : Names, email : UserEmails, age : UserAges]

InitUser ==
    /\ IdleMemo
    /\ IdleTim
    /\ IdleUwp
    /\ IdleStore
    /\ IdleLim
    /\ IdleTodo
    /\ IdleApi
    /\ IdleOpt
    /\ data \in Users
    /\ results = <<>>
    /\ fn = [v \in Values |-> v]
    /\ ret = "none"
    /\ spy = <<>>
    /\ op = "none"
    /\ IdleTask
    /\ IdleFma
    /\ IdlePar

ValidateUser ==
    /\ op = "none"
    /\ ret' = validateUser(data.name, data.email, data.age)
    /\ spy' = validateUserCalls(data.name, data.email, data.age)
    /\ op' = "validateUser"
    /\ UNCHANGED <<results, fn, data, notPure>>

NextUser == ValidateUser

SpecUser == InitUser /\ [][NextUser]_vars

(***************************************************************************)
(* Claims about validateUser (checked under SpecUser).                     *)
(***************************************************************************)
\* The fields of the validators that fail on d, in the order name, email, age.
FailingFields(d) ==
    (IF Len(d.name) < 2 THEN <<"name">> ELSE <<>>)
    \o (IF ~includes(d.email, "@") THEN <<"email">> ELSE <<>>)
    \o (IF d.age < 0 \/ d.age > 150 THEN <<"age">> ELSE <<>>)

\* C12: validateUser(name, email, age) invokes validateName, validateEmail and
\* validateAge exactly once each, on its own argument, whatever the others
\* return; when all three pass it returns Ok({name, email, age}) with every
\* value in its own place, and otherwise Err of the errors of exactly the
\* validators that failed, in the order name, email, age.
C12_ValidateUserRunsAll ==
    op = "validateUser" =>
        /\ Len(spy) = 3
        /\ spy[1] = [fn |-> "validateName", arg |-> data.name]
        /\ spy[2] = [fn |-> "validateEmail", arg |-> data.email]
        /\ spy[3] = [fn |-> "validateAge", arg |-> data.age]
        /\ IF FailingFields(data) = <<>>
           THEN ret = ok([name |-> data.name, email |-> data.email, age |-> data.age])
           ELSE /\ isErr(ret)
                /\ FieldsOf(ret.error) = FailingFields(data)
                /\ Len(ret.error) = Len(FailingFields(data))

\* The first and the last validator fail, the one between them passes.
C12_Witness ==
    /\ op = "validateUser"
    /\ Len(spy) = 3
    /\ isErr(ret)
    /\ FieldsOf(ret.error) = <<"name", "age">>

(***************************************************************************)
(* The calls a caller makes on an Option.                                  *)
(***************************************************************************)
InitOption ==
    /\ IdleMemo
    /\ IdleTim
    /\ IdleUwp
    /\ IdleStore
    /\ IdleLim
    /\ IdleTodo
    /\ IdleApi
    /\ opt \in Options
    /\ mfn \in Fns
    /\ ofn \in OptionFns
    /\ ogn \in OptionFns
    /\ oret = NotCalled
    /\ ospy = <<>>
    /\ oop = "none"
    /\ IdlePure
    /\ IdleTask
    /\ IdleFma
    /\ IdlePar

OptionMap ==
    /\ oop = "none"
    /\ oret' = map(opt, mfn)
    /\ ospy' = ospy \o mapCalls(opt, mfn)
    /\ oop' = "map"
    /\ UNCHANGED <<opt, mfn, ofn, ogn, notOpt>>

\* flatMap(flatMap(option, f), g)
FlatMapNested ==
    /\ oop = "none"
    /\ oret' = flatMap(flatMap(opt, ofn), ogn)
    /\ oop' = "flatMapNested"
    /\ UNCHANGED <<opt, mfn, ofn, ogn, ospy, notOpt>>

\* flatMap(option, x => flatMap(f(x), g))
FlatMapComposed ==
    /\ oop = "none"
    /\ oret' = flatMap(opt, [x \in Values |-> flatMap(ofn[x], ogn)])
    /\ oop' = "flatMapComposed"
    /\ UNCHANGED <<opt, mfn, ofn, ogn, ospy, notOpt>>

\* flatMap(option, some)
FlatMapSome ==
    /\ oop = "none"
    /\ oret' = flatMap(opt, [x \in Values |-> some(x)])
    /\ oop' = "flatMapSome"
    /\ UNCHANGED <<opt, mfn, ofn, ogn, ospy, notOpt>>

NextOption == OptionMap \/ FlatMapNested \/ FlatMapComposed \/ FlatMapSome

SpecOption == InitOption /\ [][NextOption]_vars

(***************************************************************************)
(* Claims about Option (checked under SpecOption).                         *)
(***************************************************************************)
\* C14: map(none(), f) returns None and never invokes f; map(some(x), f)
\* invokes f exactly once, with x, and returns Some(f(x)).
C14_MapOption ==
    oop = "map" =>
        IF opt = none
        THEN oret = none /\ ospy = <<>>
        ELSE ospy = <<opt.value>> /\ oret = some(mfn[opt.value])

\* f has been applied to the value of a Some and has changed it.
C14_Witness ==
    /\ oop = "map"
    /\ isSome(opt)
    /\ ospy = <<opt.value>>
    /\ isSome(oret)
    /\ oret # opt

\* C15: flatMap is associative, flatMap(flatMap(o, f), g) equals
\* flatMap(o, x => flatMap(f(x), g)), and some is its right identity,
\* flatMap(o, some) equals o.
C15_FlatMapLaws ==
    /\ oop = "flatMapNested" =>
            oret = flatMap(opt, [x \in Values |-> flatMap(ofn[x], ogn)])
    /\ oop = "flatMapComposed" => oret = flatMap(flatMap(opt, ofn), ogn)
    /\ oop = "flatMapSome" => oret = opt

\* Both functions ran: the Option and the first function's result are Some.
C15_Witness ==
    /\ oop = "flatMapNested"
    /\ isSome(opt)
    /\ isSome(flatMap(opt, ofn))
    /\ isSome(oret)
    /\ oret # opt

(***************************************************************************)
(* The AsyncResult tasks of chapter 8 that wrap faulting work: the request *)
(* task of createApiClient and the task of robustFetch.  pipe(f, g) is the *)
(* composition g after f of chapter 5, so robustFetch retries              *)
(* timeoutTask(fetchTask, 5000) three times; the timeout and the delay are *)
(* counted in ticks and range over the bounds of the retry model.          *)
(***************************************************************************)
RobustAttempts == 3

\* error instanceof Error ? error.message : "Unknown error"
ErrorMessage(error) ==
    IF error.name = "Error" THEN error.message ELSE "Unknown error"

\* What fetch, JSON.stringify, response.json() and a property read of null throw.
FetchFailed == [name |-> "Error", message |-> "fetch failed"]

StringifyFailed == [name |-> "Error", message |-> "cyclic object value"]

JsonSyntaxError == [name |-> "Error", message |-> "Unexpected token"]

NullPropertyError == [name |-> "Error", message |-> "Cannot read properties of null"]

\* The catch block of the request task.
NetworkError(error) ==
    err([code |-> "NETWORK_ERROR", message |-> ErrorMessage(error)])

\* The catch block of robustFetch's task.
FetchError(error) ==
    err([code |-> "FETCH_ERROR", message |-> ErrorMessage(error)])

\* obj[key] || otherwise, for an object whose fields are strings: a missing
\* field and the empty string are both falsy.  (A faulty variant follows.)
OrDefaultKeepsEmpty(obj, key, otherwise) ==
    IF key \in DOMAIN obj THEN obj[key] ELSE otherwise

OrDefault(obj, key, otherwise) ==
    IF key \in DOMAIN obj /\ obj[key] # "" THEN obj[key] ELSE otherwise

\* The objects a response body decodes to: code and message are strings, and
\* either may be missing or empty.
Objects == UNION {[D -> {"", "E42"}] : D \in SUBSET {"code", "message"}}

\* What response.json() does: it throws, or yields null or an object.
Bodies ==
    {[json |-> "throws"], [json |-> "null"]}
    \cup {[json |-> "object", obj |-> o] : o \in Objects}

\* How the network behaves for one request: stringify tells whether the body
\* of the request can be serialised, fetch whether fetch resolves, okFlag is
\* response.ok.
Requests ==
    [kind : {"request"}, stringify : BOOLEAN, fetch : {"throws", "response"},
     okFlag : BOOLEAN, body : Bodies]

\* retryTask(timeoutTask(fetchTask, 5000), 3)
RobustConfigs == {c \in Configs : c.wrapped /\ c.maxAttempts = RobustAttempts}

InitFetch ==
    /\ IdleMemo
    /\ IdleTim
    /\ IdleUwp
    /\ IdleStore
    /\ IdleLim
    /\ IdleTodo
    /\ \/ /\ net \in Requests
          /\ IdleTask
       \/ /\ net = [kind |-> "robust"]
          /\ cfg \in RobustConfigs
          /\ work = <<>>
          /\ timer = <<>>
          /\ race = <<>>
          /\ rpc = "idle"
          /\ attempt = 0
          /\ lastError = Undefined
          /\ sleep = 0
          /\ waits = <<>>
          /\ rret = Pending
    /\ apc = "idle"
    /\ ares = NotCalled
    /\ IdlePure
    /\ IdleFma
    /\ IdlePar
    /\ IdleOpt

\* The request task is called: the body is serialised and fetch is called.
RequestRun ==
    /\ net.kind = "request"
    /\ apc = "idle"
    /\ IF ~net.stringify
       THEN /\ apc' = "done"
            /\ ares' = Resolved(NetworkError(StringifyFailed))
       ELSE /\ apc' = "awaitFetch"
            /\ ares' = Pending
    /\ UNCHANGED <<net, notApi>>

\* await fetch(...) is over: it threw, or response.ok is looked at.
RequestFetched ==
    /\ apc = "awaitFetch"
    /\ IF net.fetch = "throws"
       THEN /\ apc' = "done"
            /\ ares' = Resolved(NetworkError(FetchFailed))
       ELSE /\ apc' = IF net.okFlag THEN "awaitJson" ELSE "awaitErrorJson"
            /\ UNCHANGED ares
    /\ UNCHANGED <<net, notApi>>

\* What the task returns once the body of a non-OK response has been decoded.
errorResult(body) ==
    CASE body.json = "throws" -> NetworkError(JsonSyntaxError)
      [] body.json = "null" -> NetworkError(NullPropertyError)
      [] OTHER -> err([code |-> OrDefault(body.obj, "code", "UNKNOWN"),
                       message |-> OrDefault(body.obj, "message", "Request failed")])

\* What the task returns once the body of an OK response has been decoded.
dataResult(body) ==
    IF body.json = "throws" THEN NetworkError(JsonSyntaxError) ELSE ok(body)

\* await response.json() of a non-OK response is over.
RequestErrorBody ==
    /\ apc = "awaitErrorJson"
    /\ apc' = "done"
    /\ ares' = Resolved(errorResult(net.body))
    /\ UNCHANGED <<net, notApi>>

\* await response.json() of an OK response is over.
RequestBody ==
    /\ apc = "awaitJson"
    /\ apc' = "done"
    /\ ares' = Resolved(dataResult(net.body))
    /\ UNCHANGED <<net, notApi>>

\* The task of robustFetch is called: it calls the retrying task and awaits it.
RobustRun ==
    /\ net.kind = "robust"
    /\ apc = "idle"
    /\ RetryStart
    /\ apc' = "awaitRetry"
    /\ ares' = Pending
    /\ UNCHANGED <<net, notFetch>>

\* The retrying task has settled: ok(result), or the catch block.
RobustReturn ==
    /\ apc = "awaitRetry"
    /\ rpc = "done"
    /\ apc' = "done"
    /\ ares' = Resolved(IF IsFault(rret) THEN FetchError(rret.v) ELSE ok(rret.v))
    /\ UNCHANGED <<net, taskVars, notFetch>>

NextFetch ==
    \/ RequestRun
    \/ RequestFetched
    \/ RequestErrorBody
    \/ RequestBody
    \/ RobustRun
    \/ RobustReturn
    \/ RetryResume
    \/ RetryWake
    \/ \E i \in DOMAIN work : TaskSettle(i)
    \/ \E i \in DOMAIN timer : TimerFire(i)
    \/ Tick

SpecFetch == InitFetch /\ [][NextFetch]_vars

(***************************************************************************)
(* Claims about the tasks that wrap faulting work (checked under          *)
(* SpecFetch).                                                             *)
(***************************************************************************)
\* The code or message a non-OK response carries, or the default when the
\* decoded body has none.
Carried(body, key, otherwise) ==
    IF body.json = "object" /\ key \in DOMAIN body.obj /\ body.obj[key] # ""
    THEN body.obj[key] ELSE otherwise

\* The run of a task has never rejected, and what it resolved to is a Result.
C11_NeverRejects ==
    /\ ares.kind \in {"none", "pending", "resolved"}
    /\ ares.kind = "resolved" => isOk(ares.v) # isErr(ares.v)
    /\ apc = "done" <=> ares.kind = "resolved"

\* What the task of robustFetch resolves to: Ok of the value of the first
\* attempt that resolved, which is the last one made, or Err FETCH_ERROR once
\* all three attempts have faulted or timed out.
C11_Robust ==
    (net.kind = "robust" /\ apc = "done") =>
        IF \E i \in DOMAIN race : race[i].kind = "resolved"
        THEN /\ race[Len(race)].kind = "resolved"
             /\ \A j \in 1..(Len(race) - 1) : race[j].kind = "rejected"
             /\ ares = Resolved(ok(race[Len(race)].v))
        ELSE /\ Len(race) = RobustAttempts
             /\ \A j \in DOMAIN race :
                    race[j] \in {Rejected(Fault(j)), Rejected(TimeoutError)}
             /\ isErr(ares.v)
             /\ ares.v.error.code = "FETCH_ERROR"
             /\ ares.v.error.message = race[RobustAttempts].v.message

\* C11, as stated: on a non-OK response that fetch and the JSON decoding
\* delivered without throwing, the request task resolves to Err with the
\* response's code and message, or the defaults UNKNOWN / 'Request failed'.
C11_AsStated ==
    /\ C11_NeverRejects
    /\ C11_Robust
    /\ (net.kind = "request" /\ apc = "done" /\ net.stringify) =>
          IF net.fetch = "throws" \/ net.body.json = "throws"
          THEN isErr(ares.v) /\ ares.v.error.code = "NETWORK_ERROR"
          ELSE IF ~net.okFlag
          THEN /\ isErr(ares.v)
               /\ ares.v.error.code = Carried(net.body, "code", "UNKNOWN")
               /\ ares.v.error.message = Carried(net.body, "message", "Request failed")
          ELSE ares.v = ok(net.body)

\* Something in the try block of the request task throws.
RequestThrows ==
    \/ ~net.stringify
    \/ net.fetch = "throws"
    \/ net.body.json = "throws"
    \/ ~net.okFlag /\ net.body.json = "null"

\* C11: the tasks that wrap faulting work never reject and resolve to a
\* Result.  The request task resolves to Err NETWORK_ERROR when anything in
\* its try block throws: the serialising of the body, fetch, the JSON decoding,
\* or the read of code off the body of a non-OK response that decoded to null;
\* to Err with the response's code and message (defaults UNKNOWN / 'Request
\* failed' for a missing or empty one) on any other non-OK response; and to
\* Ok(data) otherwise.  The task of robustFetch resolves to Ok(data) of the
\* first attempt that resolved, and to Err FETCH_ERROR once all 3 attempts
\* have faulted or timed out.
C11_FaultsBecomeErr ==
    /\ C11_NeverRejects
    /\ C11_Robust
    /\ (net.kind = "request" /\ apc = "done") =>
          IF RequestThrows
          THEN isErr(ares.v) /\ ares.v.error.code = "NETWORK_ERROR"
          ELSE IF ~net.okFlag
          THEN /\ isErr(ares.v)
               /\ ares.v.error.code = Carried(net.body, "code", "UNKNOWN")
               /\ ares.v.error.message = Carried(net.body, "message", "Request failed")
          ELSE ares.v = ok(net.body)

\* robustFetch has given up: one attempt timed out, another faulted, and the
\* third has been made.
C11_Witness ==
    /\ net.kind = "robust"
    /\ apc = "done"
    /\ Len(work) = RobustAttempts
    /\ \E i \in DOMAIN race : race[i] = Rejected(TimeoutError)
    /\ \E i \in DOMAIN race : race[i] = Rejected(Fault(i))
    /\ isErr(ares.v)
    /\ ares.v.error.code = "FETCH_ERROR"

(***************************************************************************)
(* The todo lists of chapter 9.  Arrays, todos and states are objects: the *)
(* heap holds them by reference, a reference is an index into it, and a    *)
(* function that builds an object appends it.  Every function is handed    *)
(* the heap h, the id crypto.randomUUID() would yield and the time t, and  *)
(* returns the heap it leaves and the reference it returns.                *)
(***************************************************************************)
MaxCalls == 2

MaxTodos == 2

MaxNow == 1

Whitespace == {" ", "\t", "\n"}

RECURSIVE trimStart(_)
trimStart(s) ==
    IF s # <<>> /\ Head(s) \in Whitespace THEN trimStart(Tail(s)) ELSE s

RECURSIVE trimEnd(_)
trimEnd(s) ==
    IF s # <<>> /\ s[Len(s)] \in Whitespace
    THEN trimEnd(SubSeq(s, 1, Len(s) - 1)) ELSE s

\* String.prototype.trim
trim(s) == trimEnd(trimStart(s))

createTodo(title, id, t) ==
    [kind |-> "todo", id |-> id, title |-> title, completed |-> FALSE,
     createdAt |-> t, updatedAt |-> t]

\* [...items]: a new array object.
Array(items) == [kind |-> "array", items |-> items]

\* An addTodo that tests the title without trimming it.
addTodoNoTrim(h, todos, title, id, t) ==
    IF title = <<>> THEN [heap |-> h, ref |-> todos]
    ELSE LET h1 == Append(h, createTodo(title, id, t))
             h2 == Append(h1, Array(Append(h[todos].items, Len(h1))))
         IN  [heap |-> h2, ref |-> Len(h2)]

addTodo(h, todos, title, id, t) ==
    IF trim(title) = <<>> THEN [heap |-> h, ref |-> todos]
    ELSE LET h1 == Append(h, createTodo(title, id, t))
             h2 == Append(h1, Array(Append(h[todos].items, Len(h1))))
         IN  [heap |-> h2, ref |-> Len(h2)]

\* { ...todo, ...updates, updatedAt: new Date() }
Merge(todo, updates, t) ==
    [k \in DOMAIN todo |->
        IF k = "updatedAt" THEN t
        ELSE IF k \in DOMAIN updates THEN updates[k] ELSE todo[k]]

\* todos.map(todo => todo.id === id ? {...} : todo), from left to right.
RECURSIVE mapUpdate(_, _, _, _, _, _)
mapUpdate(h, items, out, id, updates, t) ==
    IF items = <<>> THEN [heap |-> h, items |-> out]
    ELSE LET todo == Head(items)
         IN  IF h[todo].id = id
             THEN mapUpdate(Append(h, Merge(h[todo], updates, t)), Tail(items),
                            Append(out, Len(h) + 1), id, updates, t)
             ELSE mapUpdate(h, Tail(items), Append(out, todo), id, updates, t)

updateTodo(h, todos, id, updates, t) ==
    LET m == mapUpdate(h, h[todos].items, <<>>, id, updates, t)
        h2 == Append(m.heap, Array(m.items))
    IN  [heap |-> h2, ref |-> Len(h2)]

\* !todos.find(t => t.id === id)?.completed: true when no todo has the id.
notFoundCompleted(h, todos, id) ==
    LET found == SelectSeq(h[todos].items, LAMBDA r : h[r].id = id)
    IN  IF found = <<>> THEN TRUE ELSE ~h[Head(found)].completed

\* A toggleTodo that completes the todo whatever its flag is.
toggleTodoCompletes(h, todos, id, t) ==
    updateTodo(h, todos, id, [completed |-> TRUE], t)

toggleTodo(h, todos, id, t) ==
    updateTodo(h, todos, id, [completed |-> notFoundCompleted(h, todos, id)], t)

\* todos.filter(todo => todo.id !== id): a new array of the todos kept.
removeTodo(h, todos, id) ==
    LET h2 == Append(h, Array(SelectSeq(h[todos].items, LAMBDA r : h[r].id # id)))
    IN  [heap |-> h2, ref |-> Len(h2)]

\* todos.map(todo => ({ ...todo, completed, updatedAt: new Date() })): a new
\* todo for every todo, and a new array of them.
toggleAll(h, todos, completed, t) ==
    LET items == h[todos].items
        h1 == h \o [i \in 1..Len(items) |->
                       [h[items[i]] EXCEPT !.completed = completed, !.updatedAt = t]]
        h2 == Append(h1, Array([i \in 1..Len(items) |-> Len(h) + i]))
    IN  [heap |-> h2, ref |-> Len(h2)]

\* todos.filter(todo => !todo.completed)
clearCompleted(h, todos) ==
    LET h2 == Append(h, Array(SelectSeq(h[todos].items, LAMBDA r : ~h[r].completed)))
    IN  [heap |-> h2, ref |-> Len(h2)]

\* A { ...state, todos } that resets the error as well.
WithTodosClearsError(h, state, r) ==
    LET h2 == Append(r.heap, [h[state] EXCEPT !.todos = r.ref, !.error = "null"])
    IN  [heap |-> h2, ref |-> Len(h2)]

\* { ...state, todos }: a new state object.
WithTodos(h, state, r) ==
    LET h2 == Append(r.heap, [h[state] EXCEPT !.todos = r.ref])
    IN  [heap |-> h2, ref |-> Len(h2)]

\* { ...state, [field]: value }: a new state object.
With(h, state, field, value) ==
    LET h2 == Append(h, [h[state] EXCEPT ![field] = value])
    IN  [heap |-> h2, ref |-> Len(h2)]

reducer(h, state, action, id, t) ==
    CASE action.type = "ADD_TODO" ->
            WithTodos(h, state, addTodo(h, h[state].todos, action.payload, id, t))
      [] action.type = "REMOVE_TODO" ->
            WithTodos(h, state, removeTodo(h, h[state].todos, action.payload))
      [] action.type = "TOGGLE_TODO" ->
            WithTodos(h, state, toggleTodo(h, h[state].todos, action.payload, t))
      [] action.type = "UPDATE_TODO" ->
            WithTodos(h, state, updateTodo(h, h[state].todos, action.payload.id,
                                           [title |-> action.payload.title], t))
      [] action.type = "TOGGLE_ALL" ->
            WithTodos(h, state, toggleAll(h, h[state].todos, action.payload, t))
      [] action.type = "CLEAR_COMPLETED" ->
            WithTodos(h, state, clearCompleted(h, h[state].todos))
      [] action.type = "SET_FILTER" -> With(h, state, "filter", action.payload)
      [] action.type = "SET_LOADING" -> With(h, state, "isLoading", action.payload)
      [] action.type = "SET_ERROR" -> With(h, state, "error", action.payload)
      [] action.type = "SET_TODOS" ->
            WithTodos(h, state, [heap |-> h, ref |-> action.payload])
      [] OTHER -> [heap |-> h, ref |-> state]

\* The titles the todo functions are tried on, as sequences of characters.
Title ==
    [ T_EMPTY |-> <<>>,
      T_SPACES |-> <<" ", " ", " ">>,
      T_TABS |-> <<"\t", "\n">>,
      T_NEW |-> <<"N", "e", "w">>,
      T_PADDED |-> <<" ", "a", " ">>,
      T_OLD |-> <<"o", "l", "d">> ]

Titles == {Title.T_EMPTY, Title.T_SPACES, Title.T_TABS, Title.T_NEW, Title.T_PADDED}

\* The ids a caller may name: those yielded so far and one no todo has.
Ids == 1..(nextId + 1)

\* What state.error holds: null, or a message.
ErrorValues == {"null"} \cup Errors

\* The actions that replace state.todos.
TodoActions ==
    {[type |-> "ADD_TODO", payload |-> title] : title \in {Title.T_SPACES, Title.T_NEW}}
    \cup {[type |-> t, payload |-> id] : t \in {"REMOVE_TODO", "TOGGLE_TODO"}, id \in Ids}
    \cup {[type |-> "UPDATE_TODO", payload |-> [id |-> id, title |-> Title.T_NEW]] :
             id \in Ids}
    \cup {[type |-> "TOGGLE_ALL", payload |-> b] : b \in BOOLEAN}
    \cup {[type |-> "CLEAR_COMPLETED"]}
    \cup {[type |-> "SET_TODOS", payload |-> cur]}

\* The actions that set one of the other fields.
FieldActions ==
    {[type |-> "SET_FILTER", payload |-> f] : f \in {"all", "active", "completed"}}
    \cup {[type |-> "SET_LOADING", payload |-> b] : b \in BOOLEAN}
    \cup {[type |-> "SET_ERROR", payload |-> e] : e \in ErrorValues}

\* The actions the reducer is handed after calls on the list; NOOP is a type
\* it does not know.
Actions ==
    {[type |-> "ADD_TODO", payload |-> title] : title \in Titles}
    \cup {[type |-> "TOGGLE_TODO", payload |-> id] : id \in Ids}
    \cup {[type |-> "NOOP"]}

\* The actions of every type, and NOOP.
AllActions == TodoActions \cup FieldActions \cup {[type |-> "NOOP"]}

\* A list of n todos with ids 1..n, an array of them, and a state that holds
\* the array.
InitTodo ==
    /\ IdleMemo
    /\ IdleTim
    /\ IdleUwp
    /\ IdleStore
    /\ IdleLim
    /\ \E n \in 0..MaxTodos : \E flags \in [1..n -> BOOLEAN] :
        /\ heap = [i \in 1..n |->
                      [kind |-> "todo", id |-> i, title |-> Title.T_OLD,
                       completed |-> flags[i], createdAt |-> 0, updatedAt |-> 0]]
                  \o <<Array([i \in 1..n |-> i]),
                       [kind |-> "state", todos |-> n + 1, filter |-> "all",
                        isLoading |-> FALSE, error |-> "null"]>>
        /\ cur = n + 1
        /\ appState = n + 2
        /\ nextId = n
    /\ calls = <<>>
    /\ now = 0
    /\ IdlePure
    /\ IdleTask
    /\ IdleFma
    /\ IdlePar
    /\ IdleOpt
    /\ IdleApi

\* The record of a call: what it was handed, what it returned, and how many
\* objects existed before it.
Call(name, arg, input, out) ==
    [op |-> name, arg |-> arg, input |-> input, out |-> out, pre |-> Len(heap)]

\* How many ids a call has drawn: one for every todo createTodo built.
Drawn(h) == IF Len(h) > Len(heap) /\ \E r \in (Len(heap) + 1)..Len(h) :
                    h[r].kind = "todo" /\ h[r].id = nextId + 1
            THEN nextId + 1 ELSE nextId

AddTodo ==
    /\ Len(calls) < MaxCalls
    /\ \E title \in Titles :
        LET r == addTodo(heap, cur, title, nextId + 1, now)
        IN  /\ heap' = r.heap
            /\ cur' = r.ref
            /\ nextId' = Drawn(r.heap)
            /\ calls' = Append(calls, Call("addTodo", title, cur, r.ref))
    /\ UNCHANGED <<appState, now, notTodo>>

ToggleTodo ==
    /\ Len(calls) < MaxCalls
    /\ \E id \in Ids :
        LET r == toggleTodo(heap, cur, id, now)
        IN  /\ heap' = r.heap
            /\ cur' = r.ref
            /\ calls' = Append(calls, Call("toggleTodo", id, cur, r.ref))
    /\ UNCHANGED <<appState, now, nextId, notTodo>>

Reduce(actions) ==
    /\ Len(calls) < MaxCalls
    /\ \E action \in actions :
        LET r == reducer(heap, appState, action, nextId + 1, now)
        IN  /\ heap' = r.heap
            /\ appState' = r.ref
            /\ nextId' = Drawn(r.heap)
            /\ calls' = Append(calls, Call("reducer", action, appState, r.ref))
    /\ UNCHANGED <<cur, now, notTodo>>

\* Time passes between two calls.
TimePasses ==
    /\ now < MaxNow
    /\ now' = now + 1
    /\ UNCHANGED <<heap, cur, appState, calls, nextId, notTodo>>

NextTodo == AddTodo \/ ToggleTodo \/ Reduce(Actions) \/ TimePasses

SpecTodo == InitTodo /\ [][NextTodo]_vars

\* The reducer alone, handed actions of every type.
NextReducer == Reduce(AllActions) \/ TimePasses

SpecReducer == InitTodo /\ [][NextReducer]_vars

(***************************************************************************)
(* Claims about the todo lists (checked under SpecTodo).                   *)
(***************************************************************************)
\* The elements of the array r refers to.
Items(r) == heap[r].items

\* The title is empty or consists of whitespace only.
Blank(title) == \A i \in 1..Len(title) : title[i] \in Whitespace

\* No object that exists is modified by the step: the heap only grows.
HeapKept ==
    /\ Len(heap') >= Len(heap)
    /\ \A r \in DOMAIN heap : heap'[r] = heap[r]

C17_Calls ==
    \A k \in DOMAIN calls :
        LET c == calls[k]
        IN  /\ c.op = "addTodo" =>
                IF Blank(c.arg) THEN c.out = c.input
                ELSE /\ c.out > c.pre
                     /\ Len(Items(c.out)) = Len(Items(c.input)) + 1
                     /\ SubSeq(Items(c.out), 1, Len(Items(c.input))) = Items(c.input)
                     /\ LET new == Items(c.out)[Len(Items(c.out))]
                        IN  /\ new > c.pre
                            /\ heap[new].kind = "todo"
                            /\ heap[new].title = c.arg
                            /\ heap[new].completed = FALSE
            /\ (c.op = "reducer" /\ c.arg.type = "ADD_TODO") =>
                IF Blank(c.arg.payload)
                THEN heap[c.out].todos = heap[c.input].todos
                ELSE Len(Items(heap[c.out].todos))
                        = Len(Items(heap[c.input].todos)) + 1

C17_Step ==
    (Len(calls') > Len(calls) /\ calls'[Len(calls')].op \in {"addTodo", "reducer"})
        => HeapKept

\* C17: addTodo(todos, title) returns the list it was handed when the title is
\* empty or whitespace only; otherwise it returns a new list, the elements of
\* todos followed by one new todo with that title and completed = false; it
\* modifies no object that existed.  So ADD_TODO with a blank payload leaves
\* state.todos the same list, and with any other payload the list of the new
\* state is longer by exactly 1.
C17_AddTodo == []C17_Calls /\ [][C17_Step]_vars

\* A whitespace title has left the list alone, and a title padded with spaces
\* has then been added to it as it is.
C17_Witness ==
    /\ Len(calls) = 2
    /\ calls[1].op = "addTodo" /\ calls[1].arg = Title.T_SPACES
    /\ calls[1].out = calls[1].input
    /\ calls[2].op = "addTodo" /\ calls[2].arg = Title.T_PADDED
    /\ Len(Items(calls[2].input)) = MaxTodos
    /\ Len(Items(calls[2].out)) = MaxTodos + 1

C18_Calls ==
    \A k \in DOMAIN calls :
        LET c == calls[k]
        IN  c.op = "toggleTodo" =>
                /\ Len(Items(c.out)) = Len(Items(c.input))
                /\ \A i \in 1..Len(Items(c.input)) :
                    LET a == Items(c.input)[i]
                        b == Items(c.out)[i]
                    IN  IF heap[a].id = c.arg
                        THEN /\ heap[b].id = heap[a].id
                             /\ heap[b].title = heap[a].title
                             /\ heap[b].completed = ~heap[a].completed
                        ELSE b = a
                /\ (\A i \in 1..Len(Items(c.input)) : heap[Items(c.input)[i]].id # c.arg)
                        => Items(c.out) = Items(c.input)
                /\ (/\ k + 1 \in DOMAIN calls
                    /\ calls[k + 1].op = "toggleTodo"
                    /\ calls[k + 1].arg = c.arg
                    /\ calls[k + 1].input = c.out) =>
                        \A i \in 1..Len(Items(c.input)) :
                            heap[Items(calls[k + 1].out)[i]].completed
                                = heap[Items(c.input)[i]].completed

C18_Step ==
    (Len(calls') > Len(calls) /\ calls'[Len(calls')].op = "toggleTodo") => HeapKept

\* C18: toggleTodo(todos, id) returns a list of the same length and order in
\* which the todo with that id has its completed flag negated and every other
\* todo is the very element of the input; it modifies neither the input list
\* nor a todo in it; when no todo has the id the result has the elements of
\* the input; toggling twice with the same id restores every completed flag.
C18_ToggleTodo == []C18_Calls /\ [][C18_Step]_vars

\* The second of two todos has been toggled twice.
C18_Witness ==
    /\ Len(calls) = 2
    /\ calls[1].op = "toggleTodo" /\ calls[2].op = "toggleTodo"
    /\ calls[1].arg = 2 /\ calls[2].arg = 2
    /\ Len(Items(calls[1].input)) = 2
    /\ heap[Items(calls[1].out)[2]].completed # heap[Items(calls[1].input)[2]].completed
    /\ heap[Items(calls[2].out)[2]].completed = heap[Items(calls[1].input)[2]].completed
    /\ Items(calls[2].out)[1] = Items(calls[1].input)[1]

(***************************************************************************)
(* Claims about the reducer (checked under SpecReducer).                   *)
(***************************************************************************)
TodoTypes == {"ADD_TODO", "REMOVE_TODO", "TOGGLE_TODO", "UPDATE_TODO", "TOGGLE_ALL",
              "CLEAR_COMPLETED", "SET_TODOS"}

\* The fields of the state object r, but for the field f.
FieldsBut(r, f) == [k \in (DOMAIN heap[r]) \ {f} |-> heap[r][k]]

C29_Calls ==
    \A k \in DOMAIN calls :
        LET c == calls[k]
            type == c.arg.type
        IN  c.op = "reducer" =>
              /\ type \in TodoTypes =>
                    FieldsBut(c.out, "todos") = FieldsBut(c.input, "todos")
              /\ type = "SET_TODOS" => heap[c.out].todos = c.arg.payload
              /\ type = "SET_FILTER" =>
                    /\ FieldsBut(c.out, "filter") = FieldsBut(c.input, "filter")
                    /\ heap[c.out].filter = c.arg.payload
              /\ type = "SET_LOADING" =>
                    /\ FieldsBut(c.out, "isLoading") = FieldsBut(c.input, "isLoading")
                    /\ heap[c.out].isLoading = c.arg.payload
              /\ type = "SET_ERROR" =>
                    /\ FieldsBut(c.out, "error") = FieldsBut(c.input, "error")
                    /\ heap[c.out].error = c.arg.payload
              /\ type = "NOOP" => c.out = c.input
              \* over the sequence: the error set by a call is the error every
              \* later state holds, up to the next SET_ERROR
              /\ \A j \in DOMAIN calls :
                    (/\ j > k
                     /\ heap[c.out].error # "null"
                     /\ \A i \in (k + 1)..j : calls[i].arg.type # "SET_ERROR")
                        => heap[calls[j].out].error = heap[c.out].error

C29_Step == Len(calls') > Len(calls) => HeapKept

\* C29: the reducer changes only the field its action targets and modifies no
\* object that existed: the actions on todos leave filter, isLoading and error
\* as they were; SET_FILTER, SET_LOADING and SET_ERROR set their field to the
\* payload and leave the three other fields, todos included, as they were; an
\* action of an unknown type returns the state it was handed.  So an error
\* that is not null stays in every later state until the next SET_ERROR.
C29_ReducerFrame == []C29_Calls /\ [][C29_Step]_vars

\* An error was set, and two actions of other kinds later it is still there
\* while the list has changed.
C29_Witness ==
    /\ Len(calls) = 2
    /\ calls[1].arg.type = "SET_ERROR" /\ calls[1].arg.payload = "a"
    /\ calls[2].arg.type = "TOGGLE_ALL"
    /\ heap[appState].error = "a"
    /\ heap[appState].todos # heap[calls[1].input].todos
    /\ Len(Items(heap[appState].todos)) = MaxTodos

(***************************************************************************)
(* parallelLimit (chapter 8).  Its tasks are ptasks and their invocations  *)
(* pwork, as for parallel; the promise the loop keeps for the task         *)
(* numbered i, task().then(...), is named by i: it resolves to undefined   *)
(* when the task resolves, after results[i] has been set, and rejects with *)
(* the task's fault.                                                       *)
(***************************************************************************)
MaxLimit == 2

MaxLimitTasks == 4

MaxLimitDur == 1

LimitTasks == [dur : 0..MaxLimitDur, kind : {"ok", "fault"}]

\* An element of a JavaScript array that has not been assigned.
Hole == [type |-> "hole"]

\* results[index] = result: the array grows to hold the index.
Assign(array, index, value) ==
    [j \in 1..(IF index > Len(array) THEN index ELSE Len(array)) |->
        IF j = index THEN value
        ELSE IF j <= Len(array) THEN array[j] ELSE Hole]

\* The promise task().then(result => { results[index] = result; }), given the
\* promise of the task.
ThenPromise(promise) ==
    IF promise.kind = "resolved" THEN Resolved(Undefined) ELSE promise

\* Promise.race(executing): the first of the promises that has settled, in
\* array order when several have.
RaceOf(e, pw) ==
    LET settled == SelectSeq(e, LAMBDA i : pw[i].promise.kind # "pending")
    IN  IF settled = <<>> THEN Pending ELSE ThenPromise(pw[Head(settled)].promise)

\* Promise.all(executing)
AllOf(e, pw) ==
    LET rejected == SelectSeq(e, LAMBDA i : pw[i].promise.kind = "rejected")
    IN  IF rejected # <<>> THEN pw[Head(rejected)].promise
        ELSE IF \A j \in DOMAIN e : pw[e[j]].promise.kind = "resolved"
        THEN Resolved([j \in DOMAIN e |-> Undefined])
        ELSE Pending

\* The promise the run awaits at pc.
Waited(pc, e, pw) ==
    IF pc = "awaitRace" THEN RaceOf(e, pw) ELSE AllOf(e, pw)

\* executing.findIndex(p => p === promise || p[Symbol.for("resolved")] === true):
\* no promise is ever given that property, so the first match is promise.
findIndex(e, promise) ==
    IF \E j \in DOMAIN e : e[j] = promise
    THEN CHOOSE j \in DOMAIN e : e[j] = promise /\ \A k \in 1..(j - 1) : e[k] # promise
    ELSE 0 - 1

\* executing.splice(index, 1); index -1 names the last element.
splice(e, index) ==
    LET at == IF index < 0 THEN Len(e) ELSE index
    IN  [j \in 1..(Len(e) - 1) |-> IF j < at THEN e[j] ELSE e[j + 1]]

\* The for loop from its next iteration to its next await: every iteration
\* invokes a task and pushes its promise, and the loop goes on without an
\* await while executing is shorter than limit.
RECURSIVE loop(_, _)
loop(e, pw) ==
    IF Len(pw) = Len(ptasks) THEN [pwork |-> pw, executing |-> e, lpc |-> "awaitAll"]
    ELSE LET index == Len(pw) + 1
             pw2 == Append(pw, [left |-> ptasks[index].dur, promise |-> Pending])
             e2 == Append(e, index)
         IN  IF Len(e2) >= limit
             THEN [pwork |-> pw2, executing |-> e2, lpc |-> "awaitRace"]
             ELSE loop(e2, pw2)

\* The await of the run can continue.
LimitRunnable == lpc \in {"awaitRace", "awaitAll"} /\ lwait.kind # "pending"

InitLimit ==
    /\ IdleMemo
    /\ IdleTim
    /\ IdleUwp
    /\ IdleStore
    /\ limit \in 1..MaxLimit
    /\ ptasks \in UNION {[1..n -> LimitTasks] : n \in 0..MaxLimitTasks}
    /\ pwork = <<>>
    /\ pall = NotCalled
    /\ ppc = "idle"
    /\ executing = <<>>
    /\ lresults = <<>>
    /\ lpc = "idle"
    /\ lwait = NotCalled
    /\ lret = NotCalled
    /\ IdlePure
    /\ IdleTask
    /\ IdleFma
    /\ IdleOpt
    /\ IdleApi
    /\ IdleTodo

\* The task parallelLimit returned is called.
LimitRun ==
    /\ lpc = "idle"
    /\ LET s == loop(<<>>, <<>>)
       IN  /\ pwork' = s.pwork
           /\ executing' = s.executing
           /\ lpc' = s.lpc
           /\ lwait' = Waited(s.lpc, s.executing, s.pwork)
    /\ lret' = Pending
    /\ UNCHANGED <<limit, lresults, ptasks, pall, ppc, notLim>>

\* The awaited promise has settled: the run rejects, or removes a promise
\* from executing and goes on with the loop, or returns results.
LimitResume ==
    /\ LimitRunnable
    /\ IF lwait.kind = "rejected"
       THEN /\ lpc' = "done"
            /\ lret' = Rejected(lwait.v)
            /\ UNCHANGED <<pwork, executing, lwait>>
       ELSE IF lpc = "awaitAll"
       THEN /\ lpc' = "done"
            /\ lret' = Resolved(lresults)
            /\ UNCHANGED <<pwork, executing, lwait>>
       ELSE LET promise == Len(pwork)
                s == loop(splice(executing, findIndex(executing, promise)), pwork)
            IN  /\ pwork' = s.pwork
                /\ executing' = s.executing
                /\ lpc' = s.lpc
                /\ lwait' = Waited(s.lpc, s.executing, s.pwork)
                /\ UNCHANGED lret
    /\ UNCHANGED <<limit, lresults, ptasks, pall, ppc, notLim>>

\* The i-th task settles: its then callback sets results[i], and the promise
\* the run awaits may settle.
LimitTaskSettle(i) ==
    /\ pwork[i].promise.kind = "pending"
    /\ pwork[i].left = 0
    /\ ~LimitRunnable
    /\ LET pw == [pwork EXCEPT ![i].promise = POutcome(i)]
       IN  /\ pwork' = pw
           /\ lresults' = IF POutcome(i).kind = "resolved"
                          THEN Assign(lresults, i, POutcome(i).v) ELSE lresults
           /\ lwait' = IF lwait.kind = "pending"
                       THEN Waited(lpc, executing, pw) ELSE lwait
    /\ UNCHANGED <<limit, executing, lpc, lret, ptasks, pall, ppc, notLim>>

\* A tick passes.
LimitTick ==
    /\ ~LimitRunnable
    /\ PTick

NextLimit ==
    \/ LimitRun
    \/ LimitResume
    \/ \E i \in DOMAIN pwork : LimitTaskSettle(i)
    \/ LimitTick

SpecLimit == InitLimit /\ [][NextLimit]_vars

(***************************************************************************)
(* Claims about parallelLimit (checked under SpecLimit).                   *)
(***************************************************************************)
\* The tasks that have been invoked and have not settled.
Running == {i \in DOMAIN pwork : pwork[i].promise.kind = "pending"}

\* C19, as stated: at every moment of a run of parallelLimit(limit, tasks),
\* limit >= 1, at most limit tasks have been invoked and have not yet settled.
C19_AtMostLimitRunning == Cardinality(Running) <= limit

\* C20, as stated: a run of parallelLimit resolves only after every task has
\* been invoked and has settled, and its result array has length tasks.length
\* with element i the value tasks[i] resolved to.
C20_ResolvesWithAllResults ==
    lret.kind = "resolved" =>
        /\ Len(pwork) = Len(ptasks)
        /\ Running = {}
        /\ Len(lret.v) = Len(ptasks)
        /\ \A i \in DOMAIN ptasks : lret.v[i] = POutcome(i).v

(***************************************************************************)
(* The Store of chapter 9, made as new Store(reducer, initialState).  Its  *)
(* state is an object of the heap.  What a listener does when it is        *)
(* called, besides reading the state it is handed, is to call subscribe or *)
(* an unsubscribe function of the store, or nothing.  Listeners do not     *)
(* dispatch.                                                               *)
(***************************************************************************)
MaxDispatches == 2

\* The functions that are subscribed.
Listeners == {"f", "g"}

\* What a listener may do when called.
Behaviours ==
    {[do |-> "nothing"]}
    \cup {[do |-> d, of |-> l] : d \in {"subscribe", "unsubscribe"}, l \in Listeners}

\* What the listeners do during one dispatch: one of them acts, or one
\* unsubscribes a listener and another one subscribes it again.
Conducts ==
    {[l \in Listeners |-> IF l = a THEN x ELSE [do |-> "nothing"]] :
        a \in Listeners, x \in Behaviours}
    \cup {[l \in Listeners |->
              IF l = a THEN [do |-> "unsubscribe", of |-> c]
              ELSE IF l = b THEN [do |-> "subscribe", of |-> c]
              ELSE [do |-> "nothing"]] :
            a \in Listeners, b \in Listeners, c \in Listeners}

\* const initialState: AppState, on a heap that holds it and its empty list.
initialState ==
    [heap |-> <<Array(<<>>),
                [kind |-> "state", todos |-> 1, filter |-> "all",
                 isLoading |-> FALSE, error |-> "null"]>>,
     ref |-> 2]

\* The entries of a Set while it is iterated: a deleted entry keeps its place
\* and is skipped, an added one is put last.
Entries(ls) == [i \in DOMAIN ls |-> [listener |-> ls[i], live |-> TRUE]]

Has(entries, l) == \E i \in DOMAIN entries : entries[i].live /\ entries[i].listener = l

\* Set.prototype.add
add(entries, l) ==
    IF Has(entries, l) THEN entries
    ELSE Append(entries, [listener |-> l, live |-> TRUE])

\* Set.prototype.delete
delete(entries, l) ==
    [i \in DOMAIN entries |->
        IF entries[i].listener = l THEN [entries[i] EXCEPT !.live = FALSE]
        ELSE entries[i]]

\* The listeners of the Set, in insertion order.
Live(entries) ==
    LET kept == SelectSeq(entries, LAMBDA e : e.live)
    IN  [i \in DOMAIN kept |-> kept[i].listener]

\* subscribe(listener), and the function it returns.
subscribe(ls, l) == Live(add(Entries(ls), l))

unsubscribe(ls, l) == Live(delete(Entries(ls), l))

\* listener(this.state): the entries the call leaves.
CallListener(entries, b) ==
    CASE b.do = "subscribe" -> add(entries, b.of)
      [] b.do = "unsubscribe" -> delete(entries, b.of)
      [] OTHER -> entries

\* this.listeners.forEach(listener => listener(this.state)), from entry i on.
RECURSIVE forEach(_, _, _, _, _)
forEach(entries, i, called, conduct, state) ==
    IF i > Len(entries) THEN [entries |-> entries, called |-> called]
    ELSE IF ~entries[i].live THEN forEach(entries, i + 1, called, conduct, state)
    ELSE LET l == entries[i].listener
         IN  forEach(CallListener(entries, conduct[l]), i + 1,
                     Append(called, [listener |-> l, state |-> state, did |-> conduct[l]]),
                     conduct, state)

\* A dispatch that calls the listeners before it replaces the state.
dispatchNotifiesFirst(st, action, conduct, id, t) ==
    LET r == reducer(st.heap, st.state, action, id, t)
        f == forEach(Entries(st.listeners), 1, <<>>, conduct, st.state)
    IN  [heap |-> r.heap, state |-> r.ref, listeners |-> Live(f.entries),
         dispatched |-> Append(st.dispatched,
                               [action |-> action, id |-> id, t |-> t, state |-> r.ref]),
         notified |-> f.called]

\* dispatch(action) on the store st.
dispatch(st, action, conduct, id, t) ==
    LET r == reducer(st.heap, st.state, action, id, t)
        f == forEach(Entries(st.listeners), 1, <<>>, conduct, r.ref)
    IN  [heap |-> r.heap, state |-> r.ref, listeners |-> Live(f.entries),
         dispatched |-> Append(st.dispatched,
                               [action |-> action, id |-> id, t |-> t, state |-> r.ref]),
         notified |-> f.called]

\* The store as it stands.
store ==
    [heap |-> heap, state |-> storeState, listeners |-> listeners,
     dispatched |-> dispatched, notified |-> notified.called]

\* How a listener stands: never subscribed, subscribed by one call of
\* subscribe or by more, or unsubscribed since.
Subscribed(standing, l) ==
    [standing EXCEPT ![l] = IF @ \in {"once", "more"} THEN "more" ELSE "once"]

Unsubscribed(standing, l) ==
    [standing EXCEPT ![l] = IF @ = "never" THEN @ ELSE "unsubscribed"]

\* How the listeners stand after the calls a dispatch has made.
RECURSIVE AfterCalls(_, _)
AfterCalls(standing, called) ==
    IF called = <<>> THEN standing
    ELSE LET b == Head(called).did
         IN  AfterCalls(CASE b.do = "subscribe" -> Subscribed(standing, b.of)
                          [] b.do = "unsubscribe" -> Unsubscribed(standing, b.of)
                          [] OTHER -> standing,
                        Tail(called))

\* The store becomes st.
Becomes(st) ==
    /\ heap' = st.heap
    /\ storeState' = st.state
    /\ listeners' = st.listeners
    /\ dispatched' = st.dispatched
    /\ notified' = [called |-> st.notified, subs |-> subs]
    /\ nextId' = Drawn(st.heap)
    /\ subs' = AfterCalls(subs, st.notified)

\* The actions dispatched to the store.
StoreActions ==
    {[type |-> "ADD_TODO", payload |-> Title.T_NEW],
     [type |-> "SET_FILTER", payload |-> "active"],
     [type |-> "NOOP"]}

\* const store = new Store(reducer, initialState)
InitStore ==
    /\ IdleMemo
    /\ IdleTim
    /\ IdleUwp
    /\ heap = initialState.heap
    /\ storeState = initialState.ref
    /\ listeners = <<>>
    /\ dispatched = <<>>
    /\ subs = [l \in Listeners |-> "never"]
    /\ notified = [called |-> <<>>, subs |-> subs]
    /\ saves = <<>>
    /\ syncs = <<>>
    /\ cur = 1
    /\ appState = 2
    /\ calls = <<>>
    /\ now = 0
    /\ nextId = 0
    /\ IdlePure
    /\ IdleTask
    /\ IdleFma
    /\ IdlePar
    /\ IdleOpt
    /\ IdleApi
    /\ IdleLim

Dispatch ==
    /\ Len(dispatched) < MaxDispatches
    /\ \E action \in StoreActions : \E conduct \in Conducts :
        Becomes(dispatch(store, action, conduct, nextId + 1, now))
    /\ UNCHANGED <<saves, syncs, cur, appState, calls, now, notStore>>

Subscribe ==
    /\ \E l \in Listeners :
        /\ listeners' = subscribe(listeners, l)
        /\ subs' = Subscribed(subs, l)
    /\ UNCHANGED <<storeState, dispatched, notified, saves, syncs, todoVars, notStore>>

\* An unsubscribe function that subscribe has returned is called.
Unsubscribe ==
    /\ \E l \in Listeners :
        /\ subs[l] # "never"
        /\ listeners' = unsubscribe(listeners, l)
        /\ subs' = Unsubscribed(subs, l)
    /\ UNCHANGED <<storeState, dispatched, notified, saves, syncs, todoVars, notStore>>

NextStore == Dispatch \/ Subscribe \/ Unsubscribe

SpecStore == InitStore /\ [][NextStore]_vars

(***************************************************************************)
(* Claims about the Store (checked under SpecStore).                       *)
(***************************************************************************)
getState(st) == st.state

\* reducer folded from the left over the first k actions dispatched.
RECURSIVE Folded(_)
Folded(k) ==
    IF k = 0 THEN initialState
    ELSE LET p == Folded(k - 1)
             d == dispatched[k]
         IN  reducer(p.heap, p.ref, d.action, d.id, d.t)

\* How many of the calls were calls of the listener l.
Times(called, l) == Len(SelectSeq(called, LAMBDA c : c.listener = l))

\* One of the calls did d to the listener l.
Did(called, d, l) == \E i \in DOMAIN called : called[i].did = [do |-> d, of |-> l]

Quiet(called) == \A i \in DOMAIN called : called[i].did.do = "nothing"

\* The set holds a listener once, and holds exactly the listeners that have
\* been subscribed and not unsubscribed since.
SetOfSubscribed ==
    \A l \in Listeners :
        Times([i \in DOMAIN listeners |-> [listener |-> listeners[i]]], l)
            = IF subs[l] \in {"once", "more"} THEN 1 ELSE 0

\* The state is the fold of the actions dispatched, and the last dispatch
\* handed its listeners the state it left.
C21_State ==
    /\ getState(store) = Folded(Len(dispatched)).ref
    /\ heap = Folded(Len(dispatched)).heap
    /\ dispatched = <<>> => getState(store) = initialState.ref
    /\ \A i \in DOMAIN notified.called : notified.called[i].state = getState(store)
    /\ SetOfSubscribed

\* The listener was subscribed when the last dispatch was made.
Member(l) == notified.subs[l] \in {"once", "more"}

Silent == [l \in Listeners |-> [do |-> "nothing"]]

\* storage.save(todos): serializing or localStorage.setItem may throw.
save(todos, throws) ==
    IF throws THEN err("Failed to save todos") ELSE ok(Undefined)

\* handleEffect({ type: "SAVE_TO_STORAGE", payload }, dispatch) on the store st.
handleEffect(st, payload, throws, t) ==
    LET saveResult == save(payload, throws)
    IN  [store |-> IF isErr(saveResult)
                   THEN dispatch(st, [type |-> "SET_ERROR", payload |-> saveResult.error],
                                 Silent, 0, t)
                   ELSE st,
         save |-> [todos |-> payload, result |-> saveResult, at |-> Len(st.dispatched)]]

\* The types after which the hook saves.
SavedTypes == {"ADD_TODO", "REMOVE_TODO", "TOGGLE_TODO", "UPDATE_TODO", "TOGGLE_ALL",
               "CLEAR_COMPLETED"}

\* A hook dispatch that saves the list as it is before the action.
useTodoStoreDispatchSavesFirst(st, action, throws, id, t) ==
    LET st1 == dispatch(st, action, Silent, id, t)
    IN  IF action.type \in SavedTypes
        THEN LET e == handleEffect(st1, st.heap[st.state].todos, throws, t)
             IN  [store |-> e.store, saves |-> <<e.save>>]
        ELSE [store |-> st1, saves |-> <<>>]

\* The dispatch of useTodoStore: the store it leaves and the saves it made.
useTodoStoreDispatch(st, action, throws, id, t) ==
    LET st1 == dispatch(st, action, Silent, id, t)
    IN  IF action.type \in SavedTypes
        THEN LET e == handleEffect(st1, st1.heap[getState(st1)].todos, throws, t)
             IN  [store |-> e.store, saves |-> <<e.save>>]
        ELSE [store |-> st1, saves |-> <<>>]

\* The actions the components dispatch through the hook.
HookActions == TodoActions \cup FieldActions

\* The store has been made and the hook has subscribed its listener.
InitHook ==
    /\ IdleMemo
    /\ IdleTim
    /\ IdleUwp
    /\ heap = initialState.heap
    /\ storeState = initialState.ref
    /\ listeners = <<"f">>
    /\ dispatched = <<>>
    /\ subs = [l \in Listeners |-> IF l = "f" THEN "once" ELSE "never"]
    /\ notified = [called |-> <<>>, subs |-> subs]
    /\ saves = <<>>
    /\ syncs = <<>>
    /\ cur = 1
    /\ appState = 2
    /\ calls = <<>>
    /\ now = 0
    /\ nextId = 0
    /\ IdlePure
    /\ IdleTask
    /\ IdleFma
    /\ IdlePar
    /\ IdleOpt
    /\ IdleApi
    /\ IdleLim

HookDispatch ==
    /\ Len(dispatched) < MaxDispatches
    /\ \E action \in HookActions : \E throws \in BOOLEAN :
        LET r == useTodoStoreDispatch(store, action, throws, nextId + 1, now)
        IN  /\ Becomes(r.store)
            /\ saves' = saves \o r.saves
    /\ UNCHANGED <<syncs, cur, appState, calls, now, notStore>>

NextHook == HookDispatch

SpecHook == InitHook /\ [][NextHook]_vars

(***************************************************************************)
(* Claims about useTodoStore (checked under SpecHook).                     *)
(***************************************************************************)
\* The state the store held after its first k dispatches.
StateAfter(k) == heap[dispatched[k].state]

SavesAt(k) == SelectSeq(saves, LAMBDA s : s.at = k)

\* The dispatch numbered k was made by handleEffect, after a save that failed.
ByEffect(k) == \E i \in DOMAIN saves : saves[i].at = k - 1 /\ isErr(saves[i].result)

\* C26: the dispatch of useTodoStore first applies the action to the store;
\* for ADD_TODO, REMOVE_TODO, TOGGLE_TODO, UPDATE_TODO, TOGGLE_ALL and
\* CLEAR_COMPLETED it then calls storage.save exactly once, with the todos of
\* the state the action has left; for the other types it does not save; when
\* the save returns Err, SET_ERROR with that error is dispatched next, and it
\* leaves todos as they were.
C26_AutoSave ==
    /\ \A k \in DOMAIN dispatched :
        LET type == dispatched[k].action.type
        IN  IF ByEffect(k)
            THEN /\ type = "SET_ERROR"
                 /\ SavesAt(k) = <<>>
            ELSE IF type \in SavedTypes
            THEN /\ Len(SavesAt(k)) = 1
                 /\ SavesAt(k)[1].todos = StateAfter(k).todos
            ELSE SavesAt(k) = <<>>
    /\ \A i \in DOMAIN saves :
        LET s == saves[i]
        IN  /\ s.at \in DOMAIN dispatched
            /\ isErr(s.result) =>
                /\ s.at + 1 \in DOMAIN dispatched
                /\ dispatched[s.at + 1].action
                      = [type |-> "SET_ERROR", payload |-> s.result.error]
                /\ StateAfter(s.at + 1).todos = s.todos
                /\ StateAfter(s.at + 1).error = s.result.error

\* A todo was added and saved; then all were toggled, the save of the new
\* list failed, and the error was set while the list stayed.
C26_Witness ==
    /\ Len(dispatched) = 3
    /\ dispatched[1].action.type = "ADD_TODO"
    /\ dispatched[2].action.type = "TOGGLE_ALL"
    /\ dispatched[3].action.type = "SET_ERROR"
    /\ Len(saves) = 2
    /\ isOk(saves[1].result) /\ isErr(saves[2].result)
    /\ saves[1].todos # saves[2].todos
    /\ Len(Items(saves[2].todos)) = 1
    /\ heap[storeState].todos = saves[2].todos
    /\ heap[storeState].error = "Failed to save todos"

(***************************************************************************)
(* The SYNC_WITH_SERVER effect (chapter 9).  A sync is the run of          *)
(* mockApi.fetchTodos() that handleEffect starts: it waits for its timer,  *)
(* two ticks of 500 ms, and then resolves to a Result; the callback of     *)
(* then runs as soon as it has resolved, before any other event.           *)
(***************************************************************************)
MaxSyncs == 3

\* setTimeout(resolve, 1000), in ticks.
FetchDelay == 2

\* What fetchTodos resolves to after the delay: the network error drawn by
\* Math.random, or what storage.load() returns, the list read from an empty
\* localStorage or the error of a read that throws.
FetchOutcomes == {"Network error", "Failed to load todos", "loaded"}

fetchTodos(h, outcome) ==
    IF outcome = "loaded"
    THEN [heap |-> Append(h, Array(<<>>)), result |-> ok(Len(h) + 1)]
    ELSE [heap |-> h, result |-> err(outcome)]

SetLoading(b) == [type |-> "SET_LOADING", payload |-> b]

\* A callback that reports an error whatever the result is.
resultActionError(result) ==
    [type |-> "SET_ERROR", payload |-> "Network error"]

\* The action the callback of then dispatches for the result.
resultAction(result) ==
    IF isOk(result) THEN [type |-> "SET_TODOS", payload |-> result.value]
    ELSE [type |-> "SET_ERROR", payload |-> result.error]

\* A then callback is due: nothing else runs before it.
CallbackDue == \E i \in DOMAIN syncs : syncs[i].p.kind = "resolved" /\ ~syncs[i].handled

\* A timer has run out and its callback has not run yet.
TimerDue == \E i \in DOMAIN syncs : syncs[i].p.kind = "pending" /\ syncs[i].left = 0

\* handleEffect({ type: "SYNC_WITH_SERVER" }, dispatch)
HandleSync ==
    /\ Len(syncs) < MaxSyncs
    /\ ~CallbackDue
    /\ \E st1 \in {dispatch(store, SetLoading(TRUE), Silent, 0, now)} :
           /\ Becomes(st1)
           /\ syncs' = Append(syncs, [left |-> FetchDelay, p |-> Pending,
                                      handled |-> FALSE,
                                      started |-> Len(st1.dispatched), finished |-> 0])
    /\ UNCHANGED <<saves, cur, appState, calls, now, notStore>>

\* The timer of a sync fires, the oldest first, and fetchTodos returns.
FetchSettle(i) ==
    /\ i \in DOMAIN syncs
    /\ ~CallbackDue
    /\ syncs[i].p.kind = "pending" /\ syncs[i].left = 0
    /\ \A j \in 1..(i - 1) : syncs[j].p.kind # "pending"
    /\ \E outcome \in FetchOutcomes :
        LET r == fetchTodos(heap, outcome)
        IN  /\ heap' = r.heap
            /\ syncs' = [syncs EXCEPT ![i].p = Resolved(r.result)]
    /\ UNCHANGED <<storeState, listeners, dispatched, notified, subs, saves,
                   cur, appState, calls, now, nextId, notStore>>

\* The then callback of a resolved sync runs: st1 is the store after its
\* first dispatch and st2 the store after its second.
SyncThen(i) ==
    /\ i \in DOMAIN syncs
    /\ syncs[i].p.kind = "resolved" /\ ~syncs[i].handled
    /\ \E st1 \in {dispatch(store, SetLoading(FALSE), Silent, 0, now)} :
       \E st2 \in {dispatch(st1, resultAction(syncs[i].p.v), Silent, 0, now)} :
           Becomes(st2)
    /\ syncs' = [syncs EXCEPT ![i].handled = TRUE,
                              ![i].finished = Len(dispatched) + 1]
    /\ UNCHANGED <<saves, cur, appState, calls, now, notStore>>

\* A tick passes: no timer is due and no callback is.
SyncTick ==
    /\ ~CallbackDue
    /\ ~TimerDue
    /\ \E i \in DOMAIN syncs : syncs[i].p.kind = "pending"
    /\ syncs' = [i \in DOMAIN syncs |->
                    IF syncs[i].p.kind = "pending"
                    THEN [syncs[i] EXCEPT !.left = @ - 1] ELSE syncs[i]]
    /\ UNCHANGED <<storeState, listeners, dispatched, notified, subs, saves,
                   todoVars, notStore>>

NextSync ==
    \/ HandleSync
    \/ \E i \in 1..MaxSyncs : FetchSettle(i)
    \/ \E i \in 1..MaxSyncs : SyncThen(i)
    \/ SyncTick

\* Timers fire, callbacks run and time passes; nobody has to start a sync.
SpecSync ==
    /\ InitHook
    /\ [][NextSync]_vars
    /\ WF_vars(\E i \in 1..MaxSyncs : FetchSettle(i))
    /\ WF_vars(\E i \in 1..MaxSyncs : SyncThen(i))
    /\ WF_vars(SyncTick)

(***************************************************************************)
(* Claims about the SYNC_WITH_SERVER effect (checked under SpecSync).      *)
(***************************************************************************)
\* The dispatches of a sync, in the order of the log.
C28_Order ==
    /\ \A i \in DOMAIN syncs :
        LET s == syncs[i]
        IN  /\ s.started \in DOMAIN dispatched
            /\ dispatched[s.started].action = SetLoading(TRUE)
            /\ StateAfter(s.started).isLoading
            /\ s.handled =>
                /\ s.finished > s.started
                /\ s.finished + 1 \in DOMAIN dispatched
                /\ dispatched[s.finished].action = SetLoading(FALSE)
                /\ dispatched[s.finished + 1].action
                      = IF isOk(s.p.v)
                        THEN [type |-> "SET_TODOS", payload |-> s.p.v.value]
                        ELSE [type |-> "SET_ERROR", payload |-> s.p.v.error]
                /\ ~StateAfter(s.finished).isLoading
                /\ ~StateAfter(s.finished + 1).isLoading
            /\ ~s.handled => s.finished = 0
    \* every dispatch is one of these
    /\ Len(dispatched)
          = Len(syncs) + 2 * Len(SelectSeq(syncs, LAMBDA s : s.handled))

\* C28: handleEffect dispatches SET_LOADING(true) when the sync starts, while
\* its task is pending; once the task has resolved, SET_LOADING(false) is
\* dispatched and right after it SET_TODOS(value) for an Ok or
\* SET_ERROR(error) for an Err, and nothing else; so once a task has resolved
\* isLoading becomes false, whether or not another sync is still in flight.
C28_Sync ==
    /\ []C28_Order
    /\ \A i \in 1..MaxSyncs :
        (i \in DOMAIN syncs /\ syncs[i].p.kind = "resolved")
            ~> (i \in DOMAIN syncs /\ syncs[i].handled /\ ~heap[storeState].isLoading)

\* Two syncs overlap: the second started before the first one's callback,
\* which has set isLoading to false while the second is still pending.
C28_Witness ==
    /\ Len(syncs) = 2
    /\ syncs[1].handled
    /\ syncs[2].p.kind = "pending"
    /\ syncs[2].started < syncs[1].finished
    /\ Len(dispatched) = 4
    /\ dispatched[4].action.type = "SET_TODOS"
    /\ ~heap[storeState].isLoading

(***************************************************************************)
(* retry of chapter 7, which retries on Err values.  Its run uses the      *)
(* variables of retryTask's run: cfg holds its arguments and how fn        *)
(* behaves, work the invocations of fn.                                    *)
(***************************************************************************)
\* The error of the Err the j-th invocation of fn resolves to.
FnError(j) == [name |-> "Err", invocation |-> j]

\* fn resolves to an Err on its first cfg.faults invocations; afterwards it
\* resolves to the Ok cfg.value, or rejects when cfg.value is a fault.
FnOutcome(j) ==
    IF j <= cfg.faults THEN Resolved(err(FnError(j)))
    ELSE IF cfg.value = Fault(0) THEN Rejected(Fault(0))
    ELSE Resolved(cfg.value)

RetryConfigs ==
    [wrapped : {FALSE}, maxAttempts : (-1)..MaxAttempts, delay : 0..MaxDelay,
     ms : {0}, faults : 0..MaxFaults, value : {ok(0), Fault(0)}]

\* A retry that waits after the last attempt as well.
retryWaitsAlways(a, maxAttempts) == TRUE

\* if (attempt < maxAttempts)
retryWaits(a, maxAttempts) == a < maxAttempts

\* attempt <= maxAttempts, and then the call of fn or return err(lastError!).
retryLoop(a, error) ==
    /\ attempt' = a
    /\ IF a <= cfg.maxAttempts
       THEN /\ \E d \in 0..MaxDur :
                work' = Append(work, [dur |-> d, left |-> d, promise |-> Pending])
            /\ rpc' = "awaitTask"
            /\ UNCHANGED rret
       ELSE /\ rpc' = "done"
            /\ rret' = Resolved(err(error))
            /\ UNCHANGED work

InitResultRetry ==
    /\ IdleMemo
    /\ IdleTim
    /\ IdleUwp
    /\ cfg \in RetryConfigs
    /\ work = <<>>
    /\ timer = <<>>
    /\ race = <<>>
    /\ rpc = "idle"
    /\ attempt = 0
    /\ lastError = Undefined
    /\ sleep = 0
    /\ waits = <<>>
    /\ rret = Pending
    /\ IdlePure
    /\ IdleFma
    /\ IdlePar
    /\ IdleOpt
    /\ IdleApi
    /\ IdleTodo
    /\ IdleLim
    /\ IdleStore

\* retry(fn, maxAttempts, delay) is called.
ResultRetryRun ==
    /\ rpc = "idle"
    /\ retryLoop(1, lastError)
    /\ UNCHANGED <<cfg, timer, race, lastError, sleep, waits, notTask>>

\* The promise of fn() has settled: its fault is thrown, its Ok is returned,
\* or its error is kept and the loop goes on, after the delay or at once.
ResultRetryResume ==
    /\ rpc = "awaitTask"
    /\ work[Len(work)].promise.kind # "pending"
    /\ LET p == work[Len(work)].promise
       IN  IF p.kind = "rejected"
           THEN /\ rpc' = "done"
                /\ rret' = Rejected(p.v)
                /\ UNCHANGED <<attempt, lastError, sleep, waits, work>>
           ELSE IF isOk(p.v)
           THEN /\ rpc' = "done"
                /\ rret' = Resolved(p.v)
                /\ UNCHANGED <<attempt, lastError, sleep, waits, work>>
           ELSE /\ lastError' = p.v.error
                /\ IF retryWaits(attempt, cfg.maxAttempts)
                   THEN /\ rpc' = "awaitDelay"
                        /\ sleep' = cfg.delay
                        /\ waits' = Append(waits, cfg.delay)
                        /\ UNCHANGED <<attempt, work, rret>>
                   ELSE /\ retryLoop(attempt + 1, p.v.error)
                        /\ UNCHANGED <<sleep, waits>>
    /\ UNCHANGED <<cfg, timer, race, notTask>>

\* The delay is over: attempt++ and the loop test.
ResultRetryWake ==
    /\ rpc = "awaitDelay"
    /\ sleep = 0
    /\ retryLoop(attempt + 1, lastError)
    /\ UNCHANGED <<cfg, timer, race, lastError, sleep, waits, notTask>>

\* The i-th invocation of fn settles.
FnSettle(i) ==
    /\ work[i].promise.kind = "pending"
    /\ work[i].left = 0
    /\ ~Runnable
    /\ work' = [work EXCEPT ![i].promise = FnOutcome(i)]
    /\ UNCHANGED <<cfg, timer, race, rpc, attempt, lastError, sleep, waits, rret, notTask>>

NextResultRetry ==
    \/ ResultRetryRun
    \/ ResultRetryResume
    \/ ResultRetryWake
    \/ \E i \in DOMAIN work : FnSettle(i)
    \/ Tick

SpecResultRetry == InitResultRetry /\ [][NextResultRetry]_vars

(***************************************************************************)
(* Claims about retry (checked under SpecResultRetry).                     *)
(***************************************************************************)
IsErrOutcome(promise) == promise.kind = "resolved" /\ isErr(promise.v)

IsOkOutcome(promise) == promise.kind = "resolved" /\ isOk(promise.v)

\* C23: retry invokes fn one call at a time and at most maxAttempts times; an
\* Ok is returned as it is, with no invocation and no wait after it; when all
\* maxAttempts invocations have resolved to Err the run returns Err with the
\* error of the last one; between two attempts it waits for delay, whatever
\* the attempt, and it does not wait after the last attempt.
C23_RetryOnErr ==
    /\ Len(work) <= (IF cfg.maxAttempts > 0 THEN cfg.maxAttempts ELSE 0)
    /\ \A i \in DOMAIN work :
        /\ i < Len(work) => IsErrOutcome(work[i].promise)
        /\ IsOkOutcome(work[i].promise) =>
              /\ rpc \in {"awaitTask", "done"}
              /\ rpc = "done" => rret = work[i].promise
    /\ (rpc = "done" /\ work # <<>> /\ Len(work) = cfg.maxAttempts
          /\ \A i \in DOMAIN work : IsErrOutcome(work[i].promise)) =>
              rret = Resolved(err(FnError(Len(work))))
    /\ rpc = "done" =>
          \/ rret.kind = "rejected"
          \/ IsOkOutcome(rret)
          \/ Len(work) = (IF cfg.maxAttempts > 0 THEN cfg.maxAttempts ELSE 0)
    /\ \A i \in DOMAIN waits : waits[i] = cfg.delay
    /\ Len(waits) = (IF rpc = "awaitDelay" THEN Len(work)
                     ELSE IF work = <<>> THEN 0 ELSE Len(work) - 1)
    /\ rpc = "awaitDelay" => Len(work) < cfg.maxAttempts

\* Three attempts have resolved to Err, with a wait of delay after the first
\* and after the second, and the run has returned the third error.
C23_Witness ==
    /\ cfg.maxAttempts = 3
    /\ cfg.delay = 1
    /\ rpc = "done"
    /\ Len(work) = 3
    /\ waits = <<1, 1>>
    /\ rret = Resolved(err(FnError(3)))

(***************************************************************************)
(* fetchUserWithPosts (appendix).  userTask is the task client.get         *)
(* returned for the user, postsTask the task flatMapAsync(userTask, fn)    *)
(* returned: the run of postsTask is flatMapAsync's run, its inner task    *)
(* userTask and the task of its fn the posts request.  first is what the   *)
(* user request of the run itself settles with, inner what the user        *)
(* request of postsTask settles with.  The tasks client.get returns never  *)
(* reject: request catches every fault and returns an Err instead.         *)
(***************************************************************************)
\* What a user request settles with, and what a posts request settles with.
GetOutcomes == {Resolved(r) : r \in Results}

PostsOutcomes == {Resolved(ok(v)) : v \in Values} \cup {Resolved(err("b"))}

InitUwp ==
    /\ IdleMemo
    /\ IdleTim
    /\ first \in GetOutcomes
    /\ upc = "idle"
    /\ uruns = 0
    /\ userCalls = 0
    /\ userP = NotCalled
    /\ userResult = NotCalled
    /\ uret = NotCalled
    /\ inner \in GetOutcomes
    /\ ffn \in [Values -> PostsOutcomes]
    /\ fpc = "idle"
    /\ innerP = NotCalled
    /\ secondP = NotCalled
    /\ runs = 0
    /\ innerCalls = 0
    /\ fnCalls = <<>>
    /\ secondCalls = 0
    /\ fret = NotCalled
    /\ IdlePure
    /\ IdleTask
    /\ IdlePar
    /\ IdleOpt
    /\ IdleApi
    /\ IdleTodo
    /\ IdleLim
    /\ IdleStore

\* A faulty run: userTask keeps the promise of its first invocation.
UwpRunMemoized ==
    /\ upc \in {"idle", "done"}
    /\ uruns < MaxRuns
    /\ uruns' = uruns + 1
    /\ userCalls' = IF uruns = 0 THEN 1 ELSE userCalls
    /\ userP' = IF uruns = 0 THEN Pending ELSE userP
    /\ userResult' = NotCalled
    /\ uret' = Pending
    /\ upc' = "awaitUser"
    /\ UNCHANGED <<first, fmaVars, notUwp>>

\* The task fetchUserWithPosts returned is called: it calls userTask() and
\* awaits.
UwpRun ==
    /\ upc \in {"idle", "done"}
    /\ uruns < MaxRuns
    /\ uruns' = uruns + 1
    /\ userCalls' = userCalls + 1
    /\ userP' = Pending
    /\ userResult' = NotCalled
    /\ uret' = Pending
    /\ upc' = "awaitUser"
    /\ UNCHANGED <<first, fmaVars, notUwp>>

\* The user request of the run settles.
UwpUserSettle ==
    /\ userP.kind = "pending"
    /\ userP' = first
    /\ UNCHANGED <<first, upc, uruns, userCalls, userResult, uret, fmaVars, notUwp>>

\* const userResult = await userTask(), and then the call postsTask().
UwpResume ==
    /\ upc = "awaitUser"
    /\ userP.kind = "resolved"
    /\ userResult' = userP.v
    /\ FmaStart
    /\ upc' = "awaitPosts"
    /\ UNCHANGED <<first, uruns, userCalls, userP, uret, notUwp>>

\* What the run returns once it holds both results.
Combined(user, posts) ==
    IF isErr(user) THEN user
    ELSE IF isErr(posts) THEN posts
    ELSE ok([user |-> user.value, posts |-> posts.value])

\* const postsResult = await postsTask(), and the rest of the function.
UwpFinish ==
    /\ upc = "awaitPosts"
    /\ fpc = "done"
    /\ uret' = Resolved(Combined(userResult, fret.v))
    /\ upc' = "done"
    /\ UNCHANGED <<first, uruns, userCalls, userP, userResult, fmaVars, notUwp>>

NextUwp ==
    \/ UwpRun
    \/ UwpUserSettle
    \/ UwpResume
    \/ FmaInnerSettle
    \/ FmaResume
    \/ FmaSecondSettle
    \/ FmaAdopt
    \/ UwpFinish

SpecUwp == InitUwp /\ [][NextUwp]_vars

(***************************************************************************)
(* Claims about fetchUserWithPosts (checked under SpecUwp).                *)
(***************************************************************************)
\* The user requests and the posts requests issued so far.
UserRequests == userCalls + innerCalls

PostsRequests == secondCalls

\* C22: every run of the task issues a user request of its own, and its
\* postsTask issues another; when the user request resolves to Ok both times,
\* a finished run has issued exactly two user requests and one posts request;
\* when the first user request resolves to Err the run returns that Err.
C22_NotMemoized ==
    /\ userCalls = uruns
    /\ (upc = "done" /\ IsOkOutcome(first) /\ IsOkOutcome(inner)) =>
          /\ UserRequests = 2 * uruns
          /\ PostsRequests = uruns
    /\ (upc = "done" /\ IsErrOutcome(first)) => uret = first

\* A run in which both user requests were answered with a user, the first
\* with another user than the second, and the posts request with posts: it
\* has issued two user requests and one posts request, for the second user.
C22_Witness ==
    /\ upc = "done"
    /\ uruns = 1
    /\ first = Resolved(ok(0))
    /\ inner = Resolved(ok(1))
    /\ UserRequests = 2
    /\ PostsRequests = 1
    /\ fnCalls = <<1>>
    /\ IsOkOutcome(uret)
    /\ uret.v.value.user = 0

(***************************************************************************)
(* debounce and throttle.  Time is counted in ticks; a timer fires when it *)
(* is due, and time does not pass while a timer is due, but a call made at *)
(* the instant a timer is due may come before the timer's callback.        *)
(***************************************************************************)
MaxWait == 2
MaxClock == 4
MaxBurst == 3

Args == {"x", "y"}

\* setTimeout(callback, ms), called at the time clock by the call-th call,
\* whose arguments the callback holds.
setTimeout(ts, ms, arg, call) ==
    Append(ts, [due |-> clock + ms, arg |-> arg, call |-> call, state |-> "set"])

\* clearTimeout(id): nothing happens for undefined or for a timer that has fired.
clearTimeout(ts, id) ==
    IF id \in DOMAIN ts /\ ts[id].state = "set"
    THEN [ts EXCEPT ![id].state = "cleared"]
    ELSE ts

Due(i) == timers[i].state = "set" /\ timers[i].due <= clock

InitDebounce ==
    /\ IdleMemo
    /\ period \in 0..MaxWait
    /\ clock = 0
    /\ wcalls = <<>>
    /\ timers = <<>>
    /\ timeoutId = 0
    /\ inThrottle = FALSE
    /\ invoked = <<>>
    /\ IdlePure
    /\ IdleTask
    /\ IdleFma
    /\ IdlePar
    /\ IdleOpt
    /\ IdleApi
    /\ IdleTodo
    /\ IdleLim
    /\ IdleStore
    /\ IdleUwp

\* A debounced function that leaves the timer of the previous call alone.
DebounceCallKeepsTimer(arg) ==
    /\ Len(wcalls) < MaxBurst
    /\ wcalls' = Append(wcalls, [at |-> clock, arg |-> arg])
    /\ timers' = setTimeout(timers, period, arg, Len(wcalls) + 1)
    /\ timeoutId' = Len(timers) + 1
    /\ UNCHANGED <<period, clock, inThrottle, invoked, notTim>>

\* The debounced function is called with arg.
DebounceCall(arg) ==
    /\ Len(wcalls) < MaxBurst
    /\ wcalls' = Append(wcalls, [at |-> clock, arg |-> arg])
    /\ timers' = setTimeout(clearTimeout(timers, timeoutId), period, arg,
                            Len(wcalls) + 1)
    /\ timeoutId' = Len(timers) + 1
    /\ UNCHANGED <<period, clock, inThrottle, invoked, notTim>>

\* The timer's callback runs: () => fn(...args).
DebounceFire(i) ==
    /\ Due(i)
    /\ timers' = [timers EXCEPT ![i].state = "fired"]
    /\ invoked' = Append(invoked, [at |-> clock, arg |-> timers[i].arg,
                                   call |-> timers[i].call, last |-> Len(wcalls)])
    /\ UNCHANGED <<period, clock, wcalls, timeoutId, inThrottle, notTim>>

\* Time passes.
ClockTick ==
    /\ clock < MaxClock
    /\ \A i \in DOMAIN timers : ~Due(i)
    /\ clock' = clock + 1
    /\ UNCHANGED <<period, wcalls, timers, timeoutId, inThrottle, invoked, notTim>>

NextDebounce ==
    \/ \E arg \in Args : DebounceCall(arg)
    \/ \E i \in DOMAIN timers : DebounceFire(i)
    \/ ClockTick

SpecDebounce == InitDebounce /\ [][NextDebounce]_vars

(***************************************************************************)
(* Claims about debounce (checked under SpecDebounce).                     *)
(***************************************************************************)
\* The invocations of fn made for the k-th call.
InvokedFor(k) == {j \in DOMAIN invoked : invoked[j].call = k}

C24_State ==
    /\ \A j \in DOMAIN invoked :
        LET k == invoked[j].call
        IN  /\ k = invoked[j].last
            /\ invoked[j].arg = wcalls[k].arg
            /\ invoked[j].at = wcalls[k].at + period
    /\ \A k \in DOMAIN wcalls :
        /\ Cardinality(InvokedFor(k)) <= 1
        /\ (k < Len(wcalls) /\ wcalls[k + 1].at - wcalls[k].at < period) =>
               InvokedFor(k) = {}
        /\ (clock > wcalls[k].at + period
              /\ (k < Len(wcalls) => wcalls[k + 1].at > wcalls[k].at + period)) =>
               InvokedFor(k) # {}

C24_Step == wcalls' # wcalls => invoked' = invoked

\* C24: fn is invoked only for the most recent call, delay after it and with
\* its arguments; a call followed by another less than delay later causes no
\* invocation, so that a burst causes exactly one, for its last call, once
\* delay has passed; and no call invokes fn itself.
C24_Debounce == []C24_State /\ [][C24_Step]_vars

\* A burst of three calls one tick apart with a delay of two ticks: fn has
\* been invoked once, two ticks after the third call and with its arguments.
C24_Witness ==
    /\ period = 2
    /\ Len(wcalls) = 3
    /\ wcalls[1].at = 0
    /\ wcalls[2].at = 1
    /\ wcalls[3].at = 2
    /\ wcalls[2].arg # wcalls[3].arg
    /\ invoked = <<[at |-> 4, arg |-> wcalls[3].arg, call |-> 3, last |-> 3]>>

(***************************************************************************)
(* throttle.  fn is the caller's: an invocation of it returns or throws.   *)
(***************************************************************************)
FnOutcomes == {"returns", "throws"}

InitThrottle == InitDebounce

\* The throttled function is called with arg: unless inThrottle is set, fn is
\* invoked, and when it has returned inThrottle is set and the timer started;
\* what fn throws leaves the function before either.
ThrottleCall(arg, outcome) ==
    /\ Len(wcalls) < MaxBurst
    /\ wcalls' = Append(wcalls, [at |-> clock, arg |-> arg])
    /\ IF ~inThrottle
       THEN /\ invoked' = Append(invoked, [at |-> clock, arg |-> arg,
                                           call |-> Len(wcalls) + 1,
                                           outcome |-> outcome])
            /\ IF outcome = "returns"
               THEN /\ inThrottle' = TRUE
                    /\ timers' = setTimeout(timers, period, arg, Len(wcalls) + 1)
               ELSE UNCHANGED <<inThrottle, timers>>
       ELSE /\ outcome = "returns"    \* fn is not invoked: nothing to choose
            /\ UNCHANGED <<invoked, inThrottle, timers>>
    /\ UNCHANGED <<period, clock, timeoutId, notTim>>

\* The timer's callback runs: () => inThrottle = false.
ThrottleFire(i) ==
    /\ Due(i)
    /\ timers' = [timers EXCEPT ![i].state = "fired"]
    /\ inThrottle' = FALSE
    /\ UNCHANGED <<period, clock, wcalls, timeoutId, invoked, notTim>>

NextThrottle ==
    \/ \E arg \in Args, outcome \in FnOutcomes : ThrottleCall(arg, outcome)
    \/ \E i \in DOMAIN timers : ThrottleFire(i)
    \/ ClockTick

SpecThrottle == InitThrottle /\ [][NextThrottle]_vars

(***************************************************************************)
(* Claims about throttle (checked under SpecThrottle).                     *)
(***************************************************************************)
\* C25: the first call invokes fn; a call made less than limit after the last
\* invocation of fn invokes nothing; the first call made more than limit
\* after it invokes fn again; at least limit lies between two invocations,
\* and there are never more invocations than calls.
C25_Throttle ==
    /\ wcalls # <<>> => (invoked # <<>> /\ invoked[1].call = 1)
    /\ \A k \in DOMAIN wcalls :
        /\ \A j \in DOMAIN invoked : invoked[j].call = k => invoked[j].at = wcalls[k].at
        /\ (\E j \in DOMAIN invoked :
               /\ invoked[j].call < k
               /\ \A j2 \in DOMAIN invoked : invoked[j2].call < k => j2 <= j
               /\ wcalls[k].at - invoked[j].at < period) => InvokedFor(k) = {}
        /\ (\E j \in DOMAIN invoked :
               /\ invoked[j].call < k
               /\ \A j2 \in DOMAIN invoked : invoked[j2].call < k => j2 <= j
               /\ wcalls[k].at - invoked[j].at > period) => InvokedFor(k) # {}
    /\ \A j \in DOMAIN invoked :
        j < Len(invoked) => invoked[j + 1].at - invoked[j].at >= period
    /\ Len(invoked) <= Len(wcalls)

(***************************************************************************)
(* memoize: the one of the examples, with a cache keyed by the JSON text   *)
(* of the argument list, and the one of the course text, for functions of  *)
(* one argument, with a cache keyed by the argument itself.                *)
(***************************************************************************)
MaxMemoCalls == 3

\* The values a memoized function is called with.  The two objects are
\* distinct and have the same content, { a: 1 }.
Num(n) == [type |-> "number", n |-> n]

Text(s) == [type |-> "string", s |-> s]

Null == [type |-> "null"]

Obj(ref) == [type |-> "object", ref |-> ref, a |-> 1]

JsValues == {Num(1), Text(<<"1">>), Null, Undefined, Obj(1), Obj(2)}

ArgLists == {<<v>> : v \in JsValues}

DigitChar(d) == <<"0", "1", "2", "3", "4", "5", "6", "7", "8", "9">>[d + 1]

RECURSIVE numberText(_)
numberText(n) ==
    IF n < 10 THEN <<DigitChar(n)>>
    ELSE numberText(n \div 10) \o <<DigitChar(n % 10)>>

\* The JSON text of a value that is an element of an array: undefined is
\* written as null.
stringifyElement(v) ==
    IF v = Undefined \/ v.type = "null" THEN <<"n", "u", "l", "l">>
    ELSE IF v.type = "number" THEN numberText(v.n)
    ELSE IF v.type = "string" THEN <<"\"">> \o v.s \o <<"\"">>
    ELSE <<"{", "\"", "a", "\"", ":">> \o numberText(v.a) \o <<"}">>

RECURSIVE stringifyElements(_)
stringifyElements(vs) ==
    IF vs = <<>> THEN <<>>
    ELSE IF Len(vs) = 1 THEN stringifyElement(vs[1])
    ELSE stringifyElement(vs[1]) \o <<",">> \o stringifyElements(Tail(vs))

\* JSON.stringify(args)
stringify(args) == <<"[">> \o stringifyElements(args) \o <<"]">>

\* Map.prototype.has, get and set; a Map is kept as the list of its entries.
MapHas(cache, key) == \E i \in DOMAIN cache : cache[i].key = key

MapGet(cache, key) == cache[CHOOSE i \in DOMAIN cache : cache[i].key = key].value

MapSet(cache, key, value) ==
    IF MapHas(cache, key)
    THEN [i \in DOMAIN cache |->
            IF cache[i].key = key THEN [key |-> key, value |-> value] ELSE cache[i]]
    ELSE Append(cache, [key |-> key, value |-> value])

Returned(value) == [kind |-> "returned", value |-> value]

Thrown == [kind |-> "thrown"]

\* What a call of a memoized function does with a cache and a key: the cache it
\* leaves, whether fn was invoked, and what the call returned or threw.  The
\* invocation of fn returns result or throws.
Lookup(cache, key, outcome, result) ==
    IF MapHas(cache, key)
    THEN [cache |-> cache, invoked |-> FALSE, ret |-> Returned(MapGet(cache, key))]
    ELSE IF outcome = "throws"
    THEN [cache |-> cache, invoked |-> TRUE, ret |-> Thrown]
    ELSE [cache |-> MapSet(cache, key, result), invoked |-> TRUE,
          ret |-> Returned(result)]

\* A memoized function that looks nothing up.
memoizeForgets(cache, args, outcome, result) ==
    Lookup(<<>>, stringify(args), outcome, result)

\* The function memoize(fn) of the examples returned, called with args.
memoize(cache, args, outcome, result) ==
    Lookup(cache, stringify(args), outcome, result)

\* The function memoize(fn) of the course text returned, called with args.
memoizeByArgument(cache, args, outcome, result) ==
    Lookup(cache, args[1], outcome, result)

Variants == {"examples", "text"}

Memos == {1, 2}

\* Two memoized functions have been made of the same fn, by separate calls of
\* memoize.
InitMemo ==
    /\ memos \in [Memos -> [variant : Variants, cache : {<<>>}]]
    /\ mcalls = <<>>
    /\ fnLog = <<>>
    /\ IdlePure
    /\ IdleTask
    /\ IdleFma
    /\ IdlePar
    /\ IdleOpt
    /\ IdleApi
    /\ IdleTodo
    /\ IdleLim
    /\ IdleStore
    /\ IdleUwp
    /\ IdleTim

\* The m-th memoized function is called with args; the result of an invocation
\* of fn tells which invocation it was.
MemoCall(m, args, outcome) ==
    /\ Len(mcalls) < MaxMemoCalls
    /\ \E r \in {IF memos[m].variant = "examples"
                 THEN memoize(memos[m].cache, args, outcome, Len(fnLog) + 1)
                 ELSE memoizeByArgument(memos[m].cache, args, outcome, Len(fnLog) + 1)} :
        /\ r.invoked \/ outcome = "returns"
        /\ memos' = [memos EXCEPT ![m].cache = r.cache]
        /\ mcalls' = Append(mcalls, [memo |-> m, args |-> args,
                                     hit |-> ~r.invoked, ret |-> r.ret])
        /\ fnLog' = IF r.invoked
                    THEN Append(fnLog, [memo |-> m, args |-> args, outcome |-> outcome])
                    ELSE fnLog
    /\ UNCHANGED notMemo

NextMemo == \E m \in Memos, args \in ArgLists, outcome \in FnOutcomes : MemoCall(m, args, outcome)

SpecMemo == InitMemo /\ [][NextMemo]_vars

(***************************************************************************)
(* Claims about memoize (checked under SpecMemo).                          *)
(***************************************************************************)
\* The invocations of fn by the m-th memoized function for arguments of the
\* JSON text of args.
InvocationsForJson(m, args) ==
    {j \in DOMAIN fnLog : fnLog[j].memo = m /\ stringify(fnLog[j].args) = stringify(args)}

\* C27 as stated: a memoized function invokes fn at most once for each JSON
\* text of the argument list.
C27_AsStated ==
    \A m \in Memos, args \in ArgLists : Cardinality(InvocationsForJson(m, args)) <= 1

\* The key the m-th memoized function keeps the result of args under.
KeyOf(m, args) == IF memos[m].variant = "examples" THEN stringify(args) ELSE args[1]

\* The earlier calls of the same memoized function with an equal key in
\* which fn returned.
Stored(k) ==
    {i \in 1..(k - 1) :
        /\ mcalls[i].memo = mcalls[k].memo
        /\ KeyOf(mcalls[i].memo, mcalls[i].args) = KeyOf(mcalls[k].memo, mcalls[k].args)
        /\ ~mcalls[i].hit
        /\ mcalls[i].ret.kind = "returned"}

\* C27: a memoized function invokes fn at most once per key with a return; a
\* call whose key has no stored result invokes fn and stores what it returns
\* (nothing when it throws), and every later call of the same memoized
\* function with an equal key returns that result without invoking fn.  The
\* key is the JSON text of the argument list in the examples and the argument
\* itself in the course text.  Memoized functions made by separate calls of
\* memoize have separate caches.
C27_Memoize ==
    /\ \A k \in DOMAIN mcalls :
        /\ mcalls[k].hit <=> Stored(k) # {}
        /\ mcalls[k].hit =>
              \A i \in Stored(k) : mcalls[k].ret = mcalls[i].ret
    /\ Len(fnLog) = Cardinality({k \in DOMAIN mcalls : ~mcalls[k].hit})
    /\ \A m \in Memos, args \in ArgLists :
        Cardinality({k \in DOMAIN mcalls :
                        /\ mcalls[k].memo = m
                        /\ KeyOf(m, mcalls[k].args) = KeyOf(m, args)
                        /\ ~mcalls[k].hit
                        /\ mcalls[k].ret.kind = "returned"}) <= 1

\* The first memoized function, of the examples, was called with null, which
\* invoked fn, and then with undefined, which returned the stored result; the
\* second, called with null, invoked fn again.
C27_Witness ==
    /\ memos[1].variant = "examples"
    /\ Len(mcalls) = 3
    /\ mcalls[1] = [memo |-> 1, args |-> <<Null>>, hit |-> FALSE, ret |-> Returned(1)]
    /\ mcalls[2] = [memo |-> 1, args |-> <<Undefined>>, hit |-> TRUE, ret |-> Returned(1)]
    /\ mcalls[3] = [memo |-> 2, args |-> <<Null>>, hit |-> FALSE, ret |-> Returned(2)]

====
